---- MODULE Spec2Model ----
(***************************************************************************)
(* Model of the Databricks Genie relay bot (src/app.py): the per-message   *)
(* handler MyBot.on_message_activity, the orchestrator ask_genie, the      *)
(* session dictionary conversation_ids, and the two renderers              *)
(* process_query_results and process_for_slack.                            *)
(*                                                                         *)
(* Text is a sequence of one-character strings, so that len(), slicing,    *)
(* ljust() and join() are computed as Python computes them.  A character   *)
(* a TLA+ string cannot hold (a control character, a character beyond      *)
(* ASCII, the backtick) is the string "U+" with the four to six hex digits *)
(* of its code point, as one element of the text.                          *)
(* A Python dict is a record with a field "has" (the set of keys present)  *)
(* next to one field per possible key; a scalar is a tagged record.        *)
(* A call that may raise returns [ok, v, exc].                             *)
(***************************************************************************)
EXTENDS Integers, Sequences, FiniteSets, TLC

(***************************************************************************)
(* Bounds of the model.                                                    *)
(***************************************************************************)
\* Messages that arrive in a run of SpecSessions.
MaxMsgs == 2
\* Messages that arrive in a run of Spec.
MaxTurns == 1
\* Rows of a table handed to a renderer in a run of SpecRender.
MaxRows == 2
\* Requests that reach the HTTP endpoint in a run of SpecHttp.
MaxReqs == 2

(***************************************************************************)
(* Program constants.                                                      *)
(***************************************************************************)
max_chars == 2950
\* sys.int_info.default_max_str_digits: the digits int() takes from a str.
int_max_str_digits == 4300
\* Slack's limit on the text of a block, which max_chars stays under.
SlackTextLimit == 3000

(***************************************************************************)
(* Results of calls that may raise.                                        *)
(***************************************************************************)
Ok(v) == [ok |-> TRUE, v |-> v, exc |-> "none"]
Raise(e) == [ok |-> FALSE, v |-> <<>>, exc |-> e]
\* r, then F of its value unless r raised: the exception passes through.
Bind(r, F(_)) == IF r.ok THEN F(r.v) ELSE r
\* F of v, with v worked out once, before F starts: a local name for v.
With(v, F(_)) == CHOOSE y \in {F(x) : x \in {v}} : TRUE

(***************************************************************************)
(* Scalars of a decoded JSON document: None, str, int.                     *)
(***************************************************************************)
Null == [t |-> "null", s |-> <<>>, n |-> 0]
Str(s) == [t |-> "str", s |-> s, n |-> 0]
IntV(n) == [t |-> "int", s |-> <<>>, n |-> n]

Digits == <<"0", "1", "2", "3", "4", "5", "6", "7", "8", "9">>
IsDigit(c) == \E d \in 1..10 : Digits[d] = c
DigitVal(c) == (CHOOSE d \in 1..10 : Digits[d] = c) - 1

RECURSIVE NatToStr(_)
NatToStr(n) == IF n < 10 THEN <<Digits[n + 1]>>
               ELSE NatToStr(n \div 10) \o <<Digits[(n % 10) + 1]>>

\* str(value)
PyStr(v) == CASE v.t = "null" -> <<"N", "o", "n", "e">>
              [] v.t = "str" -> v.s
              [] v.t = "int" -> IF v.n < 0 THEN <<"-">> \o NatToStr(-v.n)
                                ELSE NatToStr(v.n)

\* bool(value)
Truthy(v) == CASE v.t = "null" -> FALSE
               [] v.t = "str" -> v.s # <<>>
               [] v.t = "int" -> v.n # 0

\* c * n, for a one-character str c
Repeat(c, n) == [i \in 1..n |-> c]

RECURSIVE DigitsToNat(_)
DigitsToNat(s) == IF s = <<>> THEN 0
                  ELSE 10 * DigitsToNat(SubSeq(s, 1, Len(s) - 1)) + DigitVal(s[Len(s)])

AllDigits(s) == \A i \in 1..Len(s) : IsDigit(s[i])
HasSign(s) == Len(s) > 0 /\ s[1] \in {"-", "+"}
Unsigned(s) == IF HasSign(s) THEN Tail(s) ELSE s
Negative(s) == HasSign(s) /\ s[1] = "-"

\* The index of the first c in s, 0 when s has none.
Find(s, c) ==
    IF \E i \in 1..Len(s) : s[i] = c
    THEN CHOOSE i \in 1..Len(s) : s[i] = c /\ \A j \in 1..(i - 1) : s[j] # c
    ELSE 0

\* s.lstrip(chars), s.rstrip(chars)
LStrip(s, chars) ==
    IF \A i \in 1..Len(s) : s[i] \in chars THEN <<>>
    ELSE SubSeq(s, CHOOSE i \in 1..Len(s) : s[i] \notin chars /\ \A j \in 1..(i - 1) : s[j] \in chars,
                Len(s))
RStrip(s, chars) ==
    IF \A i \in 1..Len(s) : s[i] \in chars THEN <<>>
    ELSE SubSeq(s, 1, CHOOSE i \in 1..Len(s) :
                          s[i] \notin chars /\ \A j \in (i + 1)..Len(s) : s[j] \in chars)

(***************************************************************************)
(* int() and float() of a str.  Both first turn every whitespace character *)
(* of Unicode into a space and every decimal digit of Unicode into its     *)
(* ASCII digit, and then read ASCII.                                       *)
(***************************************************************************)
\* The whitespace characters beyond ASCII (str.isspace).
UnicodeSpaces ==
    {"U+0085", "U+00A0", "U+1680", "U+2000", "U+2001", "U+2002", "U+2003", "U+2004",
     "U+2005", "U+2006", "U+2007", "U+2008", "U+2009", "U+200A", "U+2028", "U+2029",
     "U+202F", "U+205F", "U+3000"}

\* The decimal digits beyond ASCII (category Nd, Unicode 14), each with the
\* ASCII digit of its value: a row of the table holds the digits 0 to 9 of
\* one script.
UnicodeDecimal ==
    LET rows == <<<<"U+0660", "U+0661", "U+0662", "U+0663", "U+0664", "U+0665", "U+0666", "U+0667", "U+0668", "U+0669">>,
               <<"U+06F0", "U+06F1", "U+06F2", "U+06F3", "U+06F4", "U+06F5", "U+06F6", "U+06F7", "U+06F8", "U+06F9">>,
               <<"U+07C0", "U+07C1", "U+07C2", "U+07C3", "U+07C4", "U+07C5", "U+07C6", "U+07C7", "U+07C8", "U+07C9">>,
               <<"U+0966", "U+0967", "U+0968", "U+0969", "U+096A", "U+096B", "U+096C", "U+096D", "U+096E", "U+096F">>,
               <<"U+09E6", "U+09E7", "U+09E8", "U+09E9", "U+09EA", "U+09EB", "U+09EC", "U+09ED", "U+09EE", "U+09EF">>,
               <<"U+0A66", "U+0A67", "U+0A68", "U+0A69", "U+0A6A", "U+0A6B", "U+0A6C", "U+0A6D", "U+0A6E", "U+0A6F">>,
               <<"U+0AE6", "U+0AE7", "U+0AE8", "U+0AE9", "U+0AEA", "U+0AEB", "U+0AEC", "U+0AED", "U+0AEE", "U+0AEF">>,
               <<"U+0B66", "U+0B67", "U+0B68", "U+0B69", "U+0B6A", "U+0B6B", "U+0B6C", "U+0B6D", "U+0B6E", "U+0B6F">>,
               <<"U+0BE6", "U+0BE7", "U+0BE8", "U+0BE9", "U+0BEA", "U+0BEB", "U+0BEC", "U+0BED", "U+0BEE", "U+0BEF">>,
               <<"U+0C66", "U+0C67", "U+0C68", "U+0C69", "U+0C6A", "U+0C6B", "U+0C6C", "U+0C6D", "U+0C6E", "U+0C6F">>,
               <<"U+0CE6", "U+0CE7", "U+0CE8", "U+0CE9", "U+0CEA", "U+0CEB", "U+0CEC", "U+0CED", "U+0CEE", "U+0CEF">>,
               <<"U+0D66", "U+0D67", "U+0D68", "U+0D69", "U+0D6A", "U+0D6B", "U+0D6C", "U+0D6D", "U+0D6E", "U+0D6F">>,
               <<"U+0DE6", "U+0DE7", "U+0DE8", "U+0DE9", "U+0DEA", "U+0DEB", "U+0DEC", "U+0DED", "U+0DEE", "U+0DEF">>,
               <<"U+0E50", "U+0E51", "U+0E52", "U+0E53", "U+0E54", "U+0E55", "U+0E56", "U+0E57", "U+0E58", "U+0E59">>,
               <<"U+0ED0", "U+0ED1", "U+0ED2", "U+0ED3", "U+0ED4", "U+0ED5", "U+0ED6", "U+0ED7", "U+0ED8", "U+0ED9">>,
               <<"U+0F20", "U+0F21", "U+0F22", "U+0F23", "U+0F24", "U+0F25", "U+0F26", "U+0F27", "U+0F28", "U+0F29">>,
               <<"U+1040", "U+1041", "U+1042", "U+1043", "U+1044", "U+1045", "U+1046", "U+1047", "U+1048", "U+1049">>,
               <<"U+1090", "U+1091", "U+1092", "U+1093", "U+1094", "U+1095", "U+1096", "U+1097", "U+1098", "U+1099">>,
               <<"U+17E0", "U+17E1", "U+17E2", "U+17E3", "U+17E4", "U+17E5", "U+17E6", "U+17E7", "U+17E8", "U+17E9">>,
               <<"U+1810", "U+1811", "U+1812", "U+1813", "U+1814", "U+1815", "U+1816", "U+1817", "U+1818", "U+1819">>,
               <<"U+1946", "U+1947", "U+1948", "U+1949", "U+194A", "U+194B", "U+194C", "U+194D", "U+194E", "U+194F">>,
               <<"U+19D0", "U+19D1", "U+19D2", "U+19D3", "U+19D4", "U+19D5", "U+19D6", "U+19D7", "U+19D8", "U+19D9">>,
               <<"U+1A80", "U+1A81", "U+1A82", "U+1A83", "U+1A84", "U+1A85", "U+1A86", "U+1A87", "U+1A88", "U+1A89">>,
               <<"U+1A90", "U+1A91", "U+1A92", "U+1A93", "U+1A94", "U+1A95", "U+1A96", "U+1A97", "U+1A98", "U+1A99">>,
               <<"U+1B50", "U+1B51", "U+1B52", "U+1B53", "U+1B54", "U+1B55", "U+1B56", "U+1B57", "U+1B58", "U+1B59">>,
               <<"U+1BB0", "U+1BB1", "U+1BB2", "U+1BB3", "U+1BB4", "U+1BB5", "U+1BB6", "U+1BB7", "U+1BB8", "U+1BB9">>,
               <<"U+1C40", "U+1C41", "U+1C42", "U+1C43", "U+1C44", "U+1C45", "U+1C46", "U+1C47", "U+1C48", "U+1C49">>,
               <<"U+1C50", "U+1C51", "U+1C52", "U+1C53", "U+1C54", "U+1C55", "U+1C56", "U+1C57", "U+1C58", "U+1C59">>,
               <<"U+A620", "U+A621", "U+A622", "U+A623", "U+A624", "U+A625", "U+A626", "U+A627", "U+A628", "U+A629">>,
               <<"U+A8D0", "U+A8D1", "U+A8D2", "U+A8D3", "U+A8D4", "U+A8D5", "U+A8D6", "U+A8D7", "U+A8D8", "U+A8D9">>,
               <<"U+A900", "U+A901", "U+A902", "U+A903", "U+A904", "U+A905", "U+A906", "U+A907", "U+A908", "U+A909">>,
               <<"U+A9D0", "U+A9D1", "U+A9D2", "U+A9D3", "U+A9D4", "U+A9D5", "U+A9D6", "U+A9D7", "U+A9D8", "U+A9D9">>,
               <<"U+A9F0", "U+A9F1", "U+A9F2", "U+A9F3", "U+A9F4", "U+A9F5", "U+A9F6", "U+A9F7", "U+A9F8", "U+A9F9">>,
               <<"U+AA50", "U+AA51", "U+AA52", "U+AA53", "U+AA54", "U+AA55", "U+AA56", "U+AA57", "U+AA58", "U+AA59">>,
               <<"U+ABF0", "U+ABF1", "U+ABF2", "U+ABF3", "U+ABF4", "U+ABF5", "U+ABF6", "U+ABF7", "U+ABF8", "U+ABF9">>,
               <<"U+FF10", "U+FF11", "U+FF12", "U+FF13", "U+FF14", "U+FF15", "U+FF16", "U+FF17", "U+FF18", "U+FF19">>,
               <<"U+104A0", "U+104A1", "U+104A2", "U+104A3", "U+104A4", "U+104A5", "U+104A6", "U+104A7", "U+104A8", "U+104A9">>,
               <<"U+10D30", "U+10D31", "U+10D32", "U+10D33", "U+10D34", "U+10D35", "U+10D36", "U+10D37", "U+10D38", "U+10D39">>,
               <<"U+11066", "U+11067", "U+11068", "U+11069", "U+1106A", "U+1106B", "U+1106C", "U+1106D", "U+1106E", "U+1106F">>,
               <<"U+110F0", "U+110F1", "U+110F2", "U+110F3", "U+110F4", "U+110F5", "U+110F6", "U+110F7", "U+110F8", "U+110F9">>,
               <<"U+11136", "U+11137", "U+11138", "U+11139", "U+1113A", "U+1113B", "U+1113C", "U+1113D", "U+1113E", "U+1113F">>,
               <<"U+111D0", "U+111D1", "U+111D2", "U+111D3", "U+111D4", "U+111D5", "U+111D6", "U+111D7", "U+111D8", "U+111D9">>,
               <<"U+112F0", "U+112F1", "U+112F2", "U+112F3", "U+112F4", "U+112F5", "U+112F6", "U+112F7", "U+112F8", "U+112F9">>,
               <<"U+11450", "U+11451", "U+11452", "U+11453", "U+11454", "U+11455", "U+11456", "U+11457", "U+11458", "U+11459">>,
               <<"U+114D0", "U+114D1", "U+114D2", "U+114D3", "U+114D4", "U+114D5", "U+114D6", "U+114D7", "U+114D8", "U+114D9">>,
               <<"U+11650", "U+11651", "U+11652", "U+11653", "U+11654", "U+11655", "U+11656", "U+11657", "U+11658", "U+11659">>,
               <<"U+116C0", "U+116C1", "U+116C2", "U+116C3", "U+116C4", "U+116C5", "U+116C6", "U+116C7", "U+116C8", "U+116C9">>,
               <<"U+11730", "U+11731", "U+11732", "U+11733", "U+11734", "U+11735", "U+11736", "U+11737", "U+11738", "U+11739">>,
               <<"U+118E0", "U+118E1", "U+118E2", "U+118E3", "U+118E4", "U+118E5", "U+118E6", "U+118E7", "U+118E8", "U+118E9">>,
               <<"U+11950", "U+11951", "U+11952", "U+11953", "U+11954", "U+11955", "U+11956", "U+11957", "U+11958", "U+11959">>,
               <<"U+11C50", "U+11C51", "U+11C52", "U+11C53", "U+11C54", "U+11C55", "U+11C56", "U+11C57", "U+11C58", "U+11C59">>,
               <<"U+11D50", "U+11D51", "U+11D52", "U+11D53", "U+11D54", "U+11D55", "U+11D56", "U+11D57", "U+11D58", "U+11D59">>,
               <<"U+11DA0", "U+11DA1", "U+11DA2", "U+11DA3", "U+11DA4", "U+11DA5", "U+11DA6", "U+11DA7", "U+11DA8", "U+11DA9">>,
               <<"U+16A60", "U+16A61", "U+16A62", "U+16A63", "U+16A64", "U+16A65", "U+16A66", "U+16A67", "U+16A68", "U+16A69">>,
               <<"U+16AC0", "U+16AC1", "U+16AC2", "U+16AC3", "U+16AC4", "U+16AC5", "U+16AC6", "U+16AC7", "U+16AC8", "U+16AC9">>,
               <<"U+16B50", "U+16B51", "U+16B52", "U+16B53", "U+16B54", "U+16B55", "U+16B56", "U+16B57", "U+16B58", "U+16B59">>,
               <<"U+1D7CE", "U+1D7CF", "U+1D7D0", "U+1D7D1", "U+1D7D2", "U+1D7D3", "U+1D7D4", "U+1D7D5", "U+1D7D6", "U+1D7D7">>,
               <<"U+1D7D8", "U+1D7D9", "U+1D7DA", "U+1D7DB", "U+1D7DC", "U+1D7DD", "U+1D7DE", "U+1D7DF", "U+1D7E0", "U+1D7E1">>,
               <<"U+1D7E2", "U+1D7E3", "U+1D7E4", "U+1D7E5", "U+1D7E6", "U+1D7E7", "U+1D7E8", "U+1D7E9", "U+1D7EA", "U+1D7EB">>,
               <<"U+1D7EC", "U+1D7ED", "U+1D7EE", "U+1D7EF", "U+1D7F0", "U+1D7F1", "U+1D7F2", "U+1D7F3", "U+1D7F4", "U+1D7F5">>,
               <<"U+1D7F6", "U+1D7F7", "U+1D7F8", "U+1D7F9", "U+1D7FA", "U+1D7FB", "U+1D7FC", "U+1D7FD", "U+1D7FE", "U+1D7FF">>,
               <<"U+1E140", "U+1E141", "U+1E142", "U+1E143", "U+1E144", "U+1E145", "U+1E146", "U+1E147", "U+1E148", "U+1E149">>,
               <<"U+1E2F0", "U+1E2F1", "U+1E2F2", "U+1E2F3", "U+1E2F4", "U+1E2F5", "U+1E2F6", "U+1E2F7", "U+1E2F8", "U+1E2F9">>,
               <<"U+1E950", "U+1E951", "U+1E952", "U+1E953", "U+1E954", "U+1E955", "U+1E956", "U+1E957", "U+1E958", "U+1E959">>,
               <<"U+1FBF0", "U+1FBF1", "U+1FBF2", "U+1FBF3", "U+1FBF4", "U+1FBF5", "U+1FBF6", "U+1FBF7", "U+1FBF8", "U+1FBF9">>>>
    IN [c \in {rows[b][d] : b \in 1..Len(rows), d \in 1..10} |->
           Digits[CHOOSE d \in 1..10 : \E b \in 1..Len(rows) : rows[b][d] = c]]

\* The text s as int() and float() read it: whitespace beyond ASCII as " ",
\* a decimal digit beyond ASCII as its ASCII digit.  Any other character is
\* left as it is: where it is beyond ASCII, CPython puts "?" and ends the text
\* there, and no number is spelled with either.
ToAscii(s) ==
    [i \in 1..Len(s) |-> IF s[i] \in UnicodeSpaces THEN " "
                         ELSE IF s[i] \in DOMAIN UnicodeDecimal THEN UnicodeDecimal[s[i]]
                         ELSE s[i]]

\* s without the ASCII whitespace at its two ends (" ", \t, \n, \v, \f, \r).
Stripped(s) ==
    RStrip(LStrip(s, {" ", "\t", "\n", "\r", "\f", "U+000B"}),
           {" ", "\t", "\n", "\r", "\f", "U+000B"})

\* The "_" int() and float() allow in a str, each between two digits, taken
\* out of s.
Ungrouped(s) ==
    IF \A i \in 1..Len(s) :
          s[i] = "_" => (i > 1 /\ i < Len(s) /\ IsDigit(s[i - 1]) /\ IsDigit(s[i + 1]))
    THEN Ok(SelectSeq(s, LAMBDA c : c # "_"))
    ELSE Raise("ValueError")

\* int(value), kept as a sign and the digits (none for zero).  A str is,
\* between whitespace, an optional sign and one or more decimal digits, with
\* single underscores allowed between digits; more than int_max_str_digits
\* digits, leading zeros counted, are refused.
IntOfDigits(neg, u) ==
    Bind(Ungrouped(u),
         LAMBDA d : IF d # <<>> /\ AllDigits(d) /\ Len(d) <= int_max_str_digits
                    THEN Ok([neg |-> neg /\ LStrip(d, {"0"}) # <<>>, digits |-> LStrip(d, {"0"})])
                    ELSE Raise("ValueError"))
PyInt(v) ==
    CASE v.t = "int" -> Ok([neg |-> v.n < 0,
                            digits |-> IF v.n = 0 THEN <<>>
                                       ELSE NatToStr(IF v.n < 0 THEN -v.n ELSE v.n)])
      [] v.t = "null" -> Raise("TypeError")
      [] v.t = "str" -> LET text == Stripped(ToAscii(v.s))
                        IN IntOfDigits(Negative(text), Unsigned(text))

\* str.lower(), for ASCII text
Lower(s) ==
    LET upper == <<"A", "B", "C", "D", "E", "F", "G", "H", "I", "J", "K", "L", "M", "N", "O",
                   "P", "Q", "R", "S", "T", "U", "V", "W", "X", "Y", "Z">>
        lower == <<"a", "b", "c", "d", "e", "f", "g", "h", "i", "j", "k", "l", "m", "n", "o",
                   "p", "q", "r", "s", "t", "u", "v", "w", "x", "y", "z">>
    IN [i \in 1..Len(s) |-> IF \E k \in 1..26 : upper[k] = s[i]
                            THEN lower[CHOOSE k \in 1..26 : upper[k] = s[i]]
                            ELSE s[i]]

(***************************************************************************)
(* Arithmetic on natural numbers, which have no bound in Python: a number  *)
(* is the sequence of its limbs, its digits to the base 2^15, the lowest   *)
(* first and the highest not 0 (no limb at all for zero).                  *)
(***************************************************************************)
\* a * m + c in Len(a) + 1 limbs, the highest maybe 0, for m, c < 2^15.
RECURSIVE MulAdd(_, _, _)
MulAdd(a, m, c) ==
    IF a = <<>> THEN <<c>>
    ELSE IF Len(a) = 1 THEN <<(a[1] * m + c) % 2^15, (a[1] * m + c) \div 2^15>>
    ELSE With(MulAdd(SubSeq(a, 1, Len(a) \div 2), m, c), LAMBDA lo :
              SubSeq(lo, 1, Len(a) \div 2)
              \o MulAdd(SubSeq(a, Len(a) \div 2 + 1, Len(a)), m, lo[Len(a) \div 2 + 1]))

\* a with r above its highest limb, divided by d, for r < d <= 2^15: the
\* quotient q in Len(a) limbs, the high ones maybe 0, and the remainder r.
RECURSIVE DivMod(_, _, _)
DivMod(a, d, r) ==
    IF a = <<>> THEN [q |-> <<>>, r |-> r]
    ELSE IF Len(a) = 1 THEN [q |-> <<(r * 2^15 + a[1]) \div d>>, r |-> (r * 2^15 + a[1]) % d]
    ELSE With(DivMod(SubSeq(a, Len(a) \div 2 + 1, Len(a)), d, r), LAMBDA hi :
         With(DivMod(SubSeq(a, 1, Len(a) \div 2), d, hi.r), LAMBDA lo :
              [q |-> lo.q \o hi.q, r |-> lo.r]))

\* The number a with the decimal digits s put after its own, that is
\* a * 10^Len(s) plus the number s spells: s is taken in by halves, down to
\* four digits at a time.
RECURSIVE OfDigits(_, _)
OfDigits(a, s) ==
    IF Len(s) <= 4 THEN RStrip(MulAdd(a, 10^Len(s), DigitsToNat(s)), {0})
    ELSE With(OfDigits(a, SubSeq(s, 1, Len(s) \div 2)), LAMBDA h :
              OfDigits(h, SubSeq(s, Len(s) \div 2 + 1, Len(s))))

\* The decimal digits of a, sixteen at a time, each four the remainder of a
\* division by 10^4: the first of them may be zeros.
RECURSIVE ToDigits(_)
ToDigits(a) ==
    IF a = <<>> THEN <<>>
    ELSE LET Four(r) == [i \in 1..4 |-> Digits[((r \div 10^(4 - i)) % 10) + 1]]
             d1 == DivMod(a, 10000, 0)
             d2 == DivMod(RStrip(d1.q, {0}), 10000, 0)
             d3 == DivMod(RStrip(d2.q, {0}), 10000, 0)
             d4 == DivMod(RStrip(d3.q, {0}), 10000, 0)
         IN ToDigits(RStrip(d4.q, {0})) \o Four(d4.r) \o Four(d3.r) \o Four(d2.r) \o Four(d1.r)

\* a * 2^n rounded down, for an integer n: the limbs move by whole places
\* and each takes the bits its neighbour hands over.
Shift(a, n) ==
    IF n >= 0
    THEN RStrip([i \in 1..(Len(a) + (n \div 15) + 1) |->
                    (IF i - (n \div 15) \in 1..Len(a)
                     THEN (a[i - (n \div 15)] % 2^(15 - (n % 15))) * 2^(n % 15) ELSE 0)
                    + (IF i - (n \div 15) - 1 \in 1..Len(a)
                       THEN a[i - (n \div 15) - 1] \div 2^(15 - (n % 15)) ELSE 0)], {0})
    ELSE RStrip([i \in 1..(Len(a) - ((-n) \div 15)) |->
                    (a[i + ((-n) \div 15)] \div 2^((-n) % 15))
                    + (IF i + ((-n) \div 15) + 1 <= Len(a)
                       THEN (a[i + ((-n) \div 15) + 1] % 2^((-n) % 15)) * 2^(15 - ((-n) % 15))
                       ELSE 0)], {0})

\* The number of bits of a.
BitLen(a) ==
    IF a = <<>> THEN 0
    ELSE 15 * (Len(a) - 1) + (CHOOSE b \in 1..15 : 2^(b - 1) <= a[Len(a)] /\ a[Len(a)] < 2^b)

\* a / 2^n, n > 0, rounded to the nearest integer, a tie to the even one;
\* sticky tells that a stands for a little more than a.  h is a / 2^(n - 1)
\* rounded down and q is a / 2^n rounded down: the last bit of h is the half,
\* what was cut from h is the rest, and the last bit of q tells an odd q.
RoundShift(a, n, sticky) ==
    With(Shift(a, -(n - 1)), LAMBDA h :
    With(Shift(h, -1), LAMBDA q :
        IF /\ h # <<>> /\ h[1] % 2 = 1
           /\ (sticky \/ Shift(h, n - 1) # a \/ (q # <<>> /\ q[1] % 2 = 1))
        THEN RStrip(MulAdd(q, 1, 1), {0})
        ELSE q))

(***************************************************************************)
(* A float is kept as the double it is: a sign and m * 2^e, m a natural    *)
(* number of at most 53 bits and e >= -1074; kind tells inf and nan from a *)
(* finite number.                                                          *)
(***************************************************************************)
\* Integer part ip and fraction fp (either may be empty, not both) times
\* 10^e10: the double nearest to that number.  With p its digits as a number
\* and k the decimal places left, p * 2^t / 10^k is cut to an integer q of 55
\* bits or more, which is rounded to 53 bits, or to fewer where 2^-1074, the
\* smallest step of a double, is larger than that, a tie to the even one.
\* A number below 10^-324 is nearer to 0 than to any other double; the
\* largest double is below 2^1024, and a number that rounds to that or more
\* is inf.
FloatOfParts(neg, ip, fp, e10) ==
    IF ~(AllDigits(ip) /\ AllDigits(fp) /\ Len(ip) + Len(fp) > 0) THEN Raise("ValueError")
    ELSE With(LStrip(ip \o fp, {"0"}), LAMBDA sig :
         IF sig = <<>> \/ Len(sig) + e10 - Len(fp) < -323
         THEN Ok([kind |-> "finite", neg |-> neg, m |-> <<>>, e |-> 0])
         ELSE IF Len(sig) + e10 - Len(fp) > 309
         THEN Ok([kind |-> "inf", neg |-> neg, m |-> <<>>, e |-> 0])
         ELSE
         With(IF e10 - Len(fp) < 0 THEN Len(fp) - e10 ELSE 0, LAMBDA k :
         With(OfDigits(<<>>, IF e10 - Len(fp) > 0 THEN sig \o Repeat("0", e10 - Len(fp))
                             ELSE sig), LAMBDA p :
         With(IF 4 * k + 56 - BitLen(p) > 0 THEN 4 * k + 56 - BitLen(p) ELSE 0, LAMBDA t :
         With(ToDigits(Shift(p, t)), LAMBDA y :
         With(OfDigits(<<>>, SubSeq(y, 1, Len(y) - k)), LAMBDA q :
         With(IF BitLen(q) - 53 > t - 1074 THEN BitLen(q) - 53 ELSE t - 1074, LAMBDA sh :
         With(RoundShift(q, sh, \E i \in (Len(y) - k + 1)..Len(y) : y[i] # "0"), LAMBDA m :
         IF BitLen(m) + sh - t > 1024 THEN Ok([kind |-> "inf", neg |-> neg, m |-> <<>>, e |-> 0])
         ELSE IF m = <<>> THEN Ok([kind |-> "finite", neg |-> neg, m |-> <<>>, e |-> 0])
         ELSE Ok([kind |-> "finite", neg |-> neg, m |-> m, e |-> sh - t])))))))))
\* The mantissa mt, its first "." at d (0: none), times 10^e10.
FloatOfDigits(neg, mt, d, e10) ==
    FloatOfParts(neg, IF d = 0 THEN mt ELSE SubSeq(mt, 1, d - 1),
                 IF d = 0 THEN <<>> ELSE SubSeq(mt, d + 1, Len(mt)), e10)
\* The unsigned text u in lower case: inf, infinity, nan, or a mantissa with
\* an optional exponent part, "e" and an optionally signed run of digits, of
\* any length.  An exponent of more than six digits, leading zeros aside,
\* counts as 10^6: with a mantissa far shorter than that the number is 0 or
\* beyond the largest double either way.
FloatOfText(neg, u) ==
    IF u \in {<<"i", "n", "f">>, <<"i", "n", "f", "i", "n", "i", "t", "y">>}
    THEN Ok([kind |-> "inf", neg |-> neg, m |-> <<>>, e |-> 0])
    ELSE IF u = <<"n", "a", "n">> THEN Ok([kind |-> "nan", neg |-> FALSE, m |-> <<>>, e |-> 0])
    ELSE Bind(Ungrouped(u),
              LAMBDA t :
                  LET x == Find(t, "e")
                      mt == SubSeq(t, 1, x - 1)
                      et == SubSeq(t, x + 1, Len(t))
                  IN IF x = 0 THEN FloatOfDigits(neg, t, Find(t, "."), 0)
                     ELSE IF Unsigned(et) = <<>> \/ ~AllDigits(Unsigned(et))
                     THEN Raise("ValueError")
                     ELSE With(LStrip(Unsigned(et), {"0"}), LAMBDA n :
                               FloatOfDigits(neg, mt, Find(mt, "."),
                                             (IF Negative(et) THEN -1 ELSE 1)
                                             * (IF Len(n) > 6 THEN 1000000
                                                ELSE DigitsToNat(n)))))
\* float(value)
PyFloat(v) ==
    CASE v.t = "int" -> FloatOfParts(v.n < 0, NatToStr(IF v.n < 0 THEN -v.n ELSE v.n), <<>>, 0)
      [] v.t = "null" -> Raise("TypeError")
      [] v.t = "str" -> LET text == Stripped(ToAscii(v.s))
                        IN FloatOfText(Negative(text), Lower(Unsigned(text)))

\* The "," grouping of the digits s of an integer: a first group of one to
\* three digits, then a comma and three digits as often as it takes.
GroupDigits(s) ==
    IF s = <<>> THEN <<>>
    ELSE With(((Len(s) - 1) % 3) + 1, LAMBDA g :
         [j \in 1..(Len(s) + ((Len(s) - 1) \div 3)) |->
             IF j <= g THEN s[j]
             ELSE IF (j - g - 1) % 4 = 0 THEN ","
             ELSE s[g + 3 * ((j - g - 1) \div 4) + ((j - g - 1) % 4)]])

\* f"{x:,}" for an int x
FormatInt(n) ==
    (IF n.neg THEN <<"-">> ELSE <<>>) \o (IF n.digits = <<>> THEN <<"0">> ELSE GroupDigits(n.digits))

\* f"{x:,.2f}" for a float x: 100 * m * 2^e rounded to the nearest integer, a
\* tie to the even one, are the hundredths c, shown as "whole.ff" with the
\* whole part grouped.
FormatFloat(f) ==
    CASE f.kind = "nan" -> <<"n", "a", "n">>
      [] f.kind = "inf" -> (IF f.neg THEN <<"-">> ELSE <<>>) \o <<"i", "n", "f">>
      [] f.kind = "finite" ->
            With(LStrip(ToDigits(IF f.e >= 0 THEN Shift(RStrip(MulAdd(f.m, 100, 0), {0}), f.e)
                                 ELSE RoundShift(RStrip(MulAdd(f.m, 100, 0), {0}), -f.e,
                                                 FALSE)), {"0"}),
                 LAMBDA c :
                (IF f.neg THEN <<"-">> ELSE <<>>)
                \o (IF Len(c) > 2 THEN GroupDigits(SubSeq(c, 1, Len(c) - 2)) ELSE <<"0">>)
                \o <<".">>
                \o (IF Len(c) >= 2 THEN SubSeq(c, Len(c) - 1, Len(c))
                    ELSE Repeat("0", 2 - Len(c)) \o c))

(***************************************************************************)
(* str.join, str.ljust, slicing.                                           *)
(***************************************************************************)
RECURSIVE Join(_, _)
Join(parts, sep) == IF parts = <<>> THEN <<>>
                    ELSE IF Len(parts) = 1 THEN parts[1]
                    ELSE parts[1] \o sep \o Join(Tail(parts), sep)

Ljust(s, w) == IF Len(s) >= w THEN s ELSE s \o Repeat(" ", w - Len(s))

(***************************************************************************)
(* Dicts of the decoded answer.                                            *)
(***************************************************************************)
Col(name, type_name) == [has |-> {"name", "type_name"}, name |-> name, type_name |-> type_name]
Schema(cols) == [isdict |-> TRUE, has |-> {"columns"}, columns |-> cols]
EmptyDict == [isdict |-> TRUE, has |-> {}, columns |-> <<>>]
NotADict == [isdict |-> FALSE, has |-> {}, columns |-> <<>>]
Data(rows) == [isdict |-> TRUE, has |-> {"data_array"}, data_array |-> rows]
NoRows == [isdict |-> TRUE, has |-> {}, data_array |-> <<>>]
NotADictData == [isdict |-> FALSE, has |-> {}, data_array |-> <<>>]

AnswerJson(has, qd, columns, data, message, error) ==
    [has |-> has, query_description |-> qd, columns |-> columns, data |-> data,
     message |-> message, error |-> error]

FloatTypes == {"DECIMAL", "DOUBLE", "FLOAT"}
IntTypes == {"INT", "BIGINT", "LONG"}

\* The cell formatting both renderers spell out (lines 156-163 and 217-224).
FormatValue(value, col) ==
    IF value.t = "null" THEN Ok(<<"N", "U", "L", "L">>)
    ELSE IF "type_name" \notin col.has THEN Raise("KeyError")
    ELSE IF col.type_name \in FloatTypes
         THEN Bind(PyFloat(value), LAMBDA f : Ok(FormatFloat(f)))
    ELSE IF col.type_name \in IntTypes
         THEN Bind(PyInt(value), LAMBDA i : Ok(FormatInt(i)))
    ELSE Ok(PyStr(value))

\* [col["name"] for col in columns["columns"]]
RECURSIVE ColumnNames(_)
ColumnNames(cols) ==
    IF cols = <<>> THEN Ok(<<>>)
    ELSE IF "name" \notin cols[1].has THEN Raise("KeyError")
    ELSE Bind(ColumnNames(Tail(cols)), LAMBDA rest : Ok(<<cols[1].name>> \o rest))

\* The repr of the column object in "Unexpected column format: {columns}".
ReprColumns(columns) == IF columns.isdict THEN <<"{", "}">> ELSE <<"N", "o", "n", "e">>

(***************************************************************************)
(* process_query_results: the plain-text rendering.                        *)
(***************************************************************************)
\* for value, col in zip(row, columns["columns"]): format one row's cells
RECURSIVE FormatZip(_, _)
FormatZip(row, cols) ==
    IF row = <<>> \/ cols = <<>> THEN Ok(<<>>)
    ELSE Bind(FormatValue(row[1], cols[1]), LAMBDA h :
              Bind(FormatZip(Tail(row), Tail(cols)), LAMBDA rest : Ok(<<h>> \o rest)))

\* for row in data["data_array"]: response += "| " + " | ".join(...) + " |\n"
RECURSIVE PlainRows(_, _)
PlainRows(rows, cols) ==
    IF rows = <<>> THEN Ok(<<>>)
    ELSE Bind(FormatZip(rows[1], cols), LAMBDA r :
              Bind(PlainRows(Tail(rows), cols), LAMBDA rest :
                   Ok(<<"|", " ">> \o Join(r, <<" ", "|", " ">>) \o <<" ", "|", "\n">>
                      \o rest)))

PlainDescription(answer_json) ==
    IF "query_description" \in answer_json.has /\ Truthy(answer_json.query_description)
    THEN <<"#", "#", " ", "Q", "u", "e", "r", "y", " ", "D", "e", "s", "c", "r", "i", "p",
           "t", "i", "o", "n", "\n", "\n">>
         \o PyStr(answer_json.query_description) \o <<"\n", "\n">>
    ELSE <<>>

PlainHeader(names) == <<"|", " ">> \o Join(names, <<" ", "|", " ">>) \o <<" ", "|">>
PlainSeparator(cols) ==
    <<"|">> \o Join([i \in 1..Len(cols) |-> <<"-", "-", "-">>], <<"|">>) \o <<"|">>

PlainTable(columns, data) ==
    Bind(ColumnNames(columns.columns), LAMBDA names :
         IF ~data.isdict THEN Raise("TypeError")
         ELSE IF "data_array" \notin data.has THEN Raise("KeyError")
         ELSE Bind(PlainRows(data.data_array, columns.columns), LAMBDA rows :
                   Ok(PlainHeader(names) \o <<"\n">> \o PlainSeparator(columns.columns)
                      \o <<"\n">> \o rows)))

QueryResultsHeading == <<"#", "#", " ", "Q", "u", "e", "r", "y", " ", "R", "e", "s", "u", "l",
                         "t", "s", "\n", "\n">>
UnexpectedColumnFormat == <<"U", "n", "e", "x", "p", "e", "c", "t", "e", "d", " ", "c", "o", "l",
                            "u", "m", "n", " ", "f", "o", "r", "m", "a", "t", ":", " ">>
NoDataAvailable == <<"N", "o", " ", "d", "a", "t", "a", " ", "a", "v", "a", "i", "l", "a", "b",
                     "l", "e", ".">>

process_query_results(answer_json) ==
    Bind(IF "columns" \in answer_json.has /\ "data" \in answer_json.has
         THEN IF answer_json.columns.isdict /\ "columns" \in answer_json.columns.has
              THEN Bind(PlainTable(answer_json.columns, answer_json.data),
                        LAMBDA t : Ok(QueryResultsHeading \o t))
              ELSE Ok(QueryResultsHeading \o UnexpectedColumnFormat
                      \o ReprColumns(answer_json.columns) \o <<"\n", "\n">>)
         ELSE IF "message" \in answer_json.has
         THEN Ok(PyStr(answer_json.message) \o <<"\n", "\n">>)
         ELSE Ok(NoDataAvailable \o <<"\n", "\n">>),
         LAMBDA body : Ok(PlainDescription(answer_json) \o body))

(***************************************************************************)
(* process_for_slack: the Block Kit rendering.                             *)
(***************************************************************************)
\* The character U+0060, which a TLA+ string cannot hold, as one element of a text.
Backtick == "U+0060"
CodeFence == <<Backtick, Backtick, Backtick>>

Section(text) == [type |-> "section", text |-> text]
Divider == [type |-> "divider", text |-> Null]

\* for i, value in enumerate(row_data): col = columns["columns"][i]; format
RECURSIVE FormatEnum(_, _, _)
FormatEnum(row, cols, i) ==
    IF i > Len(row) THEN Ok(<<>>)
    ELSE IF i > Len(cols) THEN Raise("IndexError")
    ELSE Bind(FormatValue(row[i], cols[i]), LAMBDA h :
              Bind(FormatEnum(row, cols, i + 1), LAMBDA rest : Ok(<<h>> \o rest)))

\* formatted_rows
RECURSIVE SlackRows(_, _)
SlackRows(rows, cols) ==
    IF rows = <<>> THEN Ok(<<>>)
    ELSE Bind(FormatEnum(rows[1], cols, 1), LAMBDA r :
              Bind(SlackRows(Tail(rows), cols), LAMBDA rest : Ok(<<r>> \o rest)))

\* col_widths after the loop over the rows
RECURSIVE WidestCell(_, _)
WidestCell(formatted_rows, i) ==
    IF formatted_rows = <<>> THEN 0
    ELSE With(WidestCell(Tail(formatted_rows), i), LAMBDA w :
              IF i <= Len(formatted_rows[1]) /\ Len(formatted_rows[1][i]) > w
              THEN Len(formatted_rows[1][i]) ELSE w)

\* Widths taken from the header alone, whatever the cells.
HeaderWidths(header_names, formatted_rows) ==
    [i \in 1..Len(header_names) |-> Len(header_names[i])]

ColWidths(header_names, formatted_rows) ==
    [i \in 1..Len(header_names) |->
        With(WidestCell(formatted_rows, i), LAMBDA w :
             IF Len(header_names[i]) >= w THEN Len(header_names[i]) ELSE w)]

RECURSIVE TableLines(_, _)
TableLines(formatted_rows, col_widths) ==
    IF formatted_rows = <<>> THEN <<>>
    ELSE Join([i \in 1..Len(formatted_rows[1]) |-> Ljust(formatted_rows[1][i], col_widths[i])],
              <<" ", "|", " ">>)
         \o <<"\n">> \o TableLines(Tail(formatted_rows), col_widths)

HeaderStr(header_names, col_widths) ==
    Join([i \in 1..Len(header_names) |-> Ljust(header_names[i], col_widths[i])],
         <<" ", "|", " ">>)
SeparatorStr(col_widths) ==
    Join([i \in 1..Len(col_widths) |-> Repeat("-", col_widths[i])], <<"-", "+", "-">>)
TableOfWidths(header_names, formatted_rows, col_widths) ==
    HeaderStr(header_names, col_widths) \o <<"\n">> \o SeparatorStr(col_widths) \o <<"\n">>
    \o TableLines(formatted_rows, col_widths)

\* table_str, before truncation
TableStr(header_names, formatted_rows) ==
    TableOfWidths(header_names, formatted_rows, ColWidths(header_names, formatted_rows))

\* A truncation that also marks a table of exactly max_chars characters.
TruncateInclusive(table_str) ==
    SubSeq(table_str, 1, IF Len(table_str) < max_chars THEN Len(table_str) ELSE max_chars)
    \o (IF Len(table_str) >= max_chars THEN <<".", ".", ".">> ELSE <<>>)

\* table_str[:max_chars] + ("..." if len(table_str) > max_chars else "")
Truncate(table_str) ==
    SubSeq(table_str, 1, IF Len(table_str) < max_chars THEN Len(table_str) ELSE max_chars)
    \o (IF Len(table_str) > max_chars THEN <<".", ".", ".">> ELSE <<>>)

\* table_str of a payload whose table branch runs to the end
SlackTable(columns, data) ==
    Bind(ColumnNames(columns.columns), LAMBDA header_names :
         Bind(SlackRows(data.data_array, columns.columns), LAMBDA formatted_rows :
              Ok(TableStr(header_names, formatted_rows))))

SlackDescription(answer_json) ==
    IF "query_description" \in answer_json.has /\ Truthy(answer_json.query_description)
    THEN <<Section(Str(<<"*", "Q", "u", "e", "r", "y", " ", "D", "e", "s", "c", "r", "i", "p",
                         "t", "i", "o", "n", ":", "*", "\n">>
                       \o PyStr(answer_json.query_description))),
           Divider>>
    ELSE <<>>

UnexpectedDataFormat == <<"U", "n", "e", "x", "p", "e", "c", "t", "e", "d", " ", "d", "a", "t", "a",
                          " ", "f", "o", "r", "m", "a", "t", " ", "r", "e", "c", "e", "i", "v",
                          "e", "d", ".">>
QueryResultsTitle == <<"*", "Q", "u", "e", "r", "y", " ", "R", "e", "s", "u", "l", "t", "s", ":",
                       "*">>

\* Lines 200-269: the blocks of an answer with "columns" and "data".
SlackTableBlocks(columns, data) ==
    IF ~(columns.isdict /\ "columns" \in columns.has)
    THEN Ok(<<Section(Str(UnexpectedDataFormat))>>)
    ELSE IF ~data.isdict THEN Raise("TypeError")
    ELSE IF "data_array" \notin data.has THEN Ok(<<Section(Str(UnexpectedDataFormat))>>)
    ELSE Bind(SlackTable(columns, data), LAMBDA table_str :
              Ok(<<Section(Str(QueryResultsTitle)),
                   Section(Str(CodeFence \o Truncate(table_str) \o CodeFence))>>))

process_for_slack(answer_json) ==
    Bind(IF "columns" \in answer_json.has /\ "data" \in answer_json.has
         THEN SlackTableBlocks(answer_json.columns, answer_json.data)
         ELSE IF "message" \in answer_json.has
         THEN Ok(<<Section(answer_json.message)>>)
         ELSE Ok(<<Section(Str(NoDataAvailable))>>),
         LAMBDA blocks : Ok(SlackDescription(answer_json) \o blocks))

(***************************************************************************)
(* The backend's objects, as ask_genie reads them.                         *)
(***************************************************************************)
None == "None"
\* The n-th conversation id the backend hands out.
Thread(n) == "T" \o ToString(n)

Users == {"U1", "U2"}
Channels == {"slack", "msteams", "Slack"}
Msgs == 1..MaxMsgs

\* attachment.text / attachment.text.content, attachment.query / .description
Attachment(has_text, content, has_query, description) ==
    [has_text |-> has_text, content |-> content,
     has_query |-> has_query, description |-> description]
TextAttachment(content) == Attachment(TRUE, content, FALSE, Null)
QueryAttachment(description) == Attachment(FALSE, Null, TRUE, description)

\* message_content: .content and .attachments (None or a list)
MessageContent(content, isnone, attachments) ==
    [content |-> content, attachments_none |-> isnone, attachments |-> attachments]
NoMessage == MessageContent(Null, TRUE, <<>>)

\* results of get_statement: .manifest.schema.as_dict(), .result.as_dict()
StatementResult(has_manifest, columns, has_result, data) ==
    [has_manifest |-> has_manifest, columns |-> columns,
     has_result |-> has_result, data |-> data]

\* What the backend may answer in a handler's turn.
MessageContents ==
    { MessageContent(Str(<<"h", "i">>), TRUE, <<>>),
      MessageContent(Str(<<"h", "i">>), FALSE, <<>>),
      MessageContent(Str(<<"h", "i">>), FALSE,
                     <<TextAttachment(Str(<<>>)), QueryAttachment(Null),
                       QueryAttachment(Str(<<"q">>)), TextAttachment(Str(<<"o", "k">>)),
                       QueryAttachment(Str(<<"r">>)), TextAttachment(Str(<<"n", "o">>))>>) }
StatementResults ==
    { StatementResult(TRUE, Schema(<<Col(<<"n">>, "INT")>>), TRUE,
                      Data(<<<<Str(<<"1", "2", "3", "4">>)>>>>)),
      StatementResult(TRUE, Schema(<<Col(<<"n">>, "INT")>>), TRUE, NoRows),
      StatementResult(FALSE, EmptyDict, TRUE, NoRows) }

(***************************************************************************)
(* ask_genie: the payload it builds once the backend calls have returned.  *)
(***************************************************************************)
GenericError == <<"A", "n", " ", "e", "r", "r", "o", "r", " ", "o", "c", "c", "u", "r", "r", "e",
                  "d", " ", "w", "h", "i", "l", "e", " ", "p", "r", "o", "c", "e", "s", "s", "i",
                  "n", "g", " ", "y", "o", "u", "r", " ", "r", "e", "q", "u", "e", "s", "t", ".">>
DecodeError == <<"F", "a", "i", "l", "e", "d", " ", "t", "o", " ", "d", "e", "c", "o", "d", "e",
                 " ", "r", "e", "s", "p", "o", "n", "s", "e", " ", "f", "r", "o", "m", " ", "t",
                 "h", "e", " ", "s", "e", "r", "v", "e", "r", ".">>

\* An except branch that returns the exception's own text.
LeakyErrorAnswer(e) == AnswerJson({"error"}, Null, NotADict, NotADictData, Null, Str(<<e>>))

\* An except branch that returns the generic string as a message to show.
ErrorAsMessage(e) == AnswerJson({"message"}, Null, NotADict, NotADictData, Str(GenericError), Null)

\* The except branch: the payload for an exception e (e is logged, not returned).
ErrorAnswer(e) == AnswerJson({"error"}, Null, NotADict, NotADictData, Null, Str(GenericError))

MessageAnswer(text) == AnswerJson({"message"}, Null, NotADict, NotADictData, text, Null)

\* The first attachment with a query description, "" when none has one.
RECURSIVE QueryDescription(_)
QueryDescription(attachments) ==
    IF attachments = <<>> THEN Str(<<>>)
    ELSE IF attachments[1].has_query /\ Truthy(attachments[1].description)
         THEN attachments[1].description
    ELSE QueryDescription(Tail(attachments))

\* Lines 104-123: the tabular answer, or the exception raised on the way.
TabularAnswer(results, message_content) ==
    IF message_content.attachments_none THEN Raise("TypeError")
    ELSE IF ~results.has_manifest \/ ~results.has_result THEN Raise("AttributeError")
    ELSE Ok(AnswerJson({"columns", "data", "query_description"},
                       QueryDescription(message_content.attachments),
                       results.columns, results.data, Null, Null))

\* The first attachment with free text, if any.
RECURSIVE FirstText(_)
FirstText(attachments) ==
    IF attachments = <<>> THEN Raise("none")
    ELSE IF attachments[1].has_text /\ Truthy(attachments[1].content)
         THEN Ok(attachments[1].content)
    ELSE FirstText(Tail(attachments))

\* Lines 125-132: the message answer.
TextAnswer(message_content) ==
    IF ~message_content.attachments_none /\ FirstText(message_content.attachments).ok
    THEN MessageAnswer(FirstText(message_content.attachments).v)
    ELSE MessageAnswer(message_content.content)

\* json.dumps of an answer, and json.loads of that text: the text is kept as the
\* document it denotes; every answer ask_genie builds is a dict of str keys over
\* None, str, list and dict, which decodes to an equal dict.
json_dumps(obj) == [json |-> obj]
json_loads(text) == Ok(text.json)

(***************************************************************************)
(* State.                                                                  *)
(***************************************************************************)
VARIABLES
    conversation_ids,   \* MyBot.conversation_ids: [has: keys present, val: their values]
    loop,               \* handlers that occupy the event-loop thread while they wait
    next_thread,        \* conversation ids the backend has handed out so far
    pc,                 \* where each inbound activity's handler stands
    activity,           \* turn_context.activity of each handler: from_id, channel_id
    locals,             \* the local variables of each handler in flight
    calls,              \* the backend calls each handler has issued, in order
    step1,              \* the conversation id carried by each handler's step-1 response
    result,             \* what ask_genie returned to each handler
    reply,              \* the activity each handler last handed to send_activity
    sent,               \* the activities of each handler the transport delivered
    rendered,           \* the renderers each handler has run
    raised,             \* the exceptions raised inside each handler, by place
    done_before,        \* the handlers that had ended when each message arrived
    render,             \* a renderer call on its own: the payload and what came back
    http                \* each request to POST /api/messages: what came in, where it stands

vars == <<conversation_ids, loop, next_thread, pc, activity, locals, calls, step1, result,
          reply, sent, rendered, raised, done_before, render, http>>

Waiting == {"Step1", "QueryResult", "Message", "Statement", "Sending", "ErrorSending",
            "Welcoming"}
Ended == {"Replied", "ErrorReplied", "Welcomed", "Raised"}

\* ask_genie's locals, and the members on_members_added_activity has yet to
\* look at.
NoLocals == [conversation_id |-> None, im_conversation_id |-> None,
             has_query_result |-> FALSE, statement |-> FALSE, message_content |-> NoMessage,
             members |-> <<>>]
\* What ask_genie had fetched when it left the try block: message_content and
\* results (neither when a backend call raised).
Fetched(message_content, got_results, results) ==
    [message_content |-> message_content, got_results |-> got_results, results |-> results]
NoStatement == StatementResult(FALSE, EmptyDict, FALSE, NoRows)
NoResult == [returned |-> FALSE, answer |-> ErrorAnswer("none"), conversation_id |-> None,
             exc |-> "none", fetched |-> Fetched(NoMessage, FALSE, NoStatement)]
NoActivity == [kind |-> "none", text |-> <<>>, attachments |-> <<>>]
\* MessageFactory.text(response_text), and send_activity(str)
TextActivity(text) == [kind |-> "text", text |-> text, attachments |-> <<>>]
\* Activity(type=message, attachments=blocks)
BlocksActivity(blocks) == [kind |-> "blocks", text |-> <<>>, attachments |-> blocks]

\* A lookup that takes whatever thread the registry holds, whose ever it is.
GetAny(d, user_id) == IF d.has = {} THEN None ELSE d.val[CHOOSE u \in d.has : TRUE]

\* self.conversation_ids.get(user_id)
Get(d, user_id) == IF user_id \in d.has THEN d.val[user_id] ELSE None
\* A store that keeps the id a user already has.
PutIfAbsent(d, user_id, conversation_id) ==
    IF user_id \in d.has /\ d.val[user_id] # None THEN d
    ELSE [has |-> d.has \cup {user_id}, val |-> [d.val EXCEPT ![user_id] = conversation_id]]

\* self.conversation_ids[user_id] = new_conversation_id
Put(d, user_id, conversation_id) ==
    [has |-> d.has \cup {user_id}, val |-> [d.val EXCEPT ![user_id] = conversation_id]]

NotRun == [ok |-> FALSE, v |-> <<>>, exc |-> "not run"]
RenderOf(payload) == [payload |-> payload, plain |-> NotRun, blocks |-> NotRun, table |-> NotRun]

(***************************************************************************)
(* messages: the handler of POST /api/messages, and the requests it gets.  *)
(***************************************************************************)
Reqs == 1..MaxReqs

\* sub in s, for two str
Contains(sub, s) ==
    \E i \in 1..(Len(s) - Len(sub) + 1) : SubSeq(s, i, i + Len(sub) - 1) = sub

ApplicationJson == <<"a", "p", "p", "l", "i", "c", "a", "t", "i", "o", "n", "/", "j", "s", "o", "n">>

\* req.headers: the names present, and the value of Content-Type
Headers(has, content_type) == [has |-> has, content_type |-> content_type]
\* The headers of the requests: application/json, the same with a charset,
\* Application/JSON, text/plain, a text/plain whose parameter happens to spell
\* the JSON media type, and no Content-Type at all.
HeaderSets ==
    { Headers({"Content-Type"}, ct) :
        ct \in {ApplicationJson,
                ApplicationJson \o <<";", " ", "c", "h", "a", "r", "s", "e", "t", "=", "u", "t", "f",
                                     "-", "8">>,
                <<"A", "p", "p", "l", "i", "c", "a", "t", "i", "o", "n", "/", "J", "S", "O", "N">>,
                <<"t", "e", "x", "t", "/", "p", "l", "a", "i", "n">>,
                <<"t", "e", "x", "t", "/", "p", "l", "a", "i", "n", ";", " ", "x", "=">>
                \o ApplicationJson} }
    \cup { Headers({}, <<>>) }

\* Request bodies: a message activity, a conversationUpdate activity with
\* members added, an invoke activity, bytes that are not JSON, and a JSON
\* document that Activity().deserialize rejects.
Bodies == {"message", "conversationUpdate", "invoke", "not_json", "not_envelope"}

\* await req.json()
req_json(body) == IF body = "not_json" THEN Raise("JSONDecodeError") ELSE Ok(body)
\* Activity().deserialize(body)
deserialize(body) == IF body = "not_envelope" THEN Raise("DeserializationError") ELSE Ok(body)

\* What ADAPTER.process_activity(activity, auth_header, BOT.on_turn) does with
\* an activity: it rejects the caller before the bot runs, or it runs
\* BOT.on_turn.  For an invoke the turn ends with an invoke response and its
\* status; for a message the turn is on_message_activity and for a
\* conversationUpdate with members added on_members_added_activity, and
\* process_activity returns None when the handler returns and passes on the
\* exception that left the handler.
ProcessOutcomes(body) ==
    {"unauthorized"} \cup (IF body = "invoke" THEN {"invoke_200", "invoke_501"} ELSE {})
\* Whether the bot ran, and what process_activity gave back (0 stands for None).
process_activity(outcome) ==
    CASE outcome = "unauthorized" -> [invoked |-> FALSE, r |-> Raise("PermissionError")]
      [] outcome = "bot_raises" -> [invoked |-> TRUE, r |-> Raise("Exception")]
      [] outcome = "invoke_200" -> [invoked |-> TRUE, r |-> Ok(200)]
      [] outcome = "invoke_501" -> [invoked |-> TRUE, r |-> Ok(501)]
      [] outcome = "none" -> [invoked |-> TRUE, r |-> Ok(0)]

\* web.Response(status=...)
Response(status) == Ok(status)

\* Lines 360-367: the response for what process_activity did.
ProcessedResponse(r) ==
    IF ~r.ok THEN Response(500)
    ELSE IF r.v # 0 THEN Response(r.v)
    ELSE Response(201)

\* The web server around a handler: the response the handler returned, and
\* 500 Internal Server Error when an exception left the handler.
Serve(returned) == IF returned.ok THEN returned.v ELSE 500

NoRequest == [pc |-> "Idle", headers |-> Headers({}, <<>>), body |-> "none",
              invoked |-> FALSE, caught |-> "none", result |-> NotRun, status |-> 0]

\* The request req once messages returned or raised (caught: the exception its
\* except clause caught, if any), with the status served.
Finished(req, invoked, caught, returned) ==
    [req EXCEPT !.pc = "Done", !.invoked = invoked, !.caught = caught, !.result = returned,
                !.status = Serve(returned)]
\* Lines 361-367: the request req once process_activity came back with outcome.
Processed(req, outcome) ==
    Finished(req, process_activity(outcome).invoked, process_activity(outcome).r.exc,
             ProcessedResponse(process_activity(outcome).r))

\* A request as it comes in.
Request(headers, body) == [NoRequest EXCEPT !.headers = headers, !.body = body]

\* Lines 361-367: the request req whose handler stands at handler_pc.  While
\* the handler awaits, process_activity awaits it; when the handler has ended,
\* by returning or by an exception that leaves it, process_activity has come
\* back and messages has returned its response, with no await in between.
Turn(req, handler_pc) ==
    IF handler_pc \notin Ended THEN [req EXCEPT !.pc = "InBot", !.invoked = TRUE]
    ELSE Processed(req, IF handler_pc = "Raised" THEN "bot_raises" ELSE "none")

\* Lines 361-367, after a step of handler m: the request that runs m.
Served(m) == http' = [http EXCEPT ![m] = Turn(@, pc'[m])]

Init ==
    /\ render = RenderOf(ErrorAnswer("none"))
    /\ conversation_ids = [has |-> {}, val |-> [u \in Users |-> None]]
    /\ loop = {}
    /\ next_thread = 0
    /\ pc = [m \in Msgs |-> "Idle"]
    /\ activity = [m \in Msgs |-> [from_id |-> None, channel_id |-> "none"]]
    /\ locals = [m \in Msgs |-> NoLocals]
    /\ calls = [m \in Msgs |-> <<>>]
    /\ step1 = [m \in Msgs |-> None]
    /\ result = [m \in Msgs |-> NoResult]
    /\ reply = [m \in Msgs |-> NoActivity]
    /\ sent = [m \in Msgs |-> <<>>]
    /\ rendered = [m \in Msgs |-> {}]
    /\ raised = [m \in Msgs |-> <<>>]
    /\ done_before = [m \in Msgs |-> {}]
    /\ http = [m \in Msgs |-> NoRequest]

(***************************************************************************)
(* The event loop: one thread runs every handler; a handler runs from one  *)
(* await to the next, and while it awaits the loop runs the others.        *)
(***************************************************************************)
\* A call made on the loop's own thread: handler m keeps the loop while it waits.
BlockingCall(m) == loop \cup {m}

\* await loop.run_in_executor(None, call, ...): the call runs on a worker thread
\* and handler m leaves the loop until it returns.
RunInExecutor(m) == loop \ {m}

\* The loop can run handler m: no other handler occupies it.
CanRun(m) == loop \subseteq {m}

\* A step 1 that starts a conversation whatever the handler looked up.
AlwaysStart(conversation_id) ==
    [op |-> "start_conversation_and_wait", conversation_id |-> None]

\* A step 1 that always posts a follow-up, on whatever it was given.
AlwaysPost(conversation_id) ==
    [op |-> "create_message_and_wait", conversation_id |-> conversation_id]

\* Lines 72-84: the step-1 call for the conversation id the handler looked up.
Step1Call(conversation_id) ==
    IF conversation_id = None
    THEN [op |-> "start_conversation_and_wait", conversation_id |-> None]
    ELSE [op |-> "create_message_and_wait", conversation_id |-> conversation_id]

\* A step 1 after which a follow-up no longer knows its thread.
ForgetOnFollowUp(conversation_id, im_conversation_id) ==
    IF conversation_id = None THEN im_conversation_id ELSE None

\* Lines 72-84: conversation_id once the step-1 response initial_message is in.
NewConversationId(conversation_id, im_conversation_id) ==
    IF conversation_id = None THEN im_conversation_id ELSE conversation_id

\* A channel test that ignores the case of the identifier.
SelectRendererAnyCase(channel_id) ==
    IF channel_id \in {"slack", "Slack"} THEN "process_for_slack" ELSE "process_query_results"

\* Line 313: the renderer for a channel.
SelectRenderer(channel_id) ==
    IF channel_id = "slack" THEN "process_for_slack" ELSE "process_query_results"

\* Lines 312-327: reply_activity, or the exception the renderer raised.
ReplyActivity(channel_id, answer_json) ==
    IF SelectRenderer(channel_id) = "process_for_slack"
    THEN Bind(process_for_slack(answer_json), LAMBDA attachments : Ok(BlocksActivity(attachments)))
    ELSE Bind(process_query_results(answer_json),
              LAMBDA response_text : Ok(TextActivity(response_text)))

(***************************************************************************)
(* on_message_activity, one action per stretch between two awaits.         *)
(***************************************************************************)
\* Lines 300-306 and 70-84: BOT.on_turn hands a message activity to
\* on_message_activity; the handler reads the question and the user id, looks
\* the session up and issues the step-1 call.  An activity without
\* from_property raises at line 301, outside the try.
ReceiveTurn(m, from_id, channel_id) ==
    /\ pc[m] = "Idle"
    /\ CanRun(m)
    /\ UNCHANGED render
    /\ activity' = [activity EXCEPT ![m] = [from_id |-> from_id, channel_id |-> channel_id]]
    /\ done_before' = [done_before EXCEPT ![m] = {o \in Msgs : pc[o] \in Ended}]
    /\ IF from_id = None
       THEN /\ pc' = [pc EXCEPT ![m] = "Raised"]
            /\ raised' = [raised EXCEPT ![m] = Append(@, [at |-> "extract", exc |-> "AttributeError"])]
            /\ loop' = loop \ {m}
            /\ UNCHANGED <<locals, calls>>
       ELSE LET conversation_id == Get(conversation_ids, from_id) IN
            /\ pc' = [pc EXCEPT ![m] = "Step1"]
            /\ locals' = [locals EXCEPT ![m].conversation_id = conversation_id]
            /\ calls' = [calls EXCEPT ![m] = Append(@, Step1Call(conversation_id))]
            /\ loop' = RunInExecutor(m)
            /\ UNCHANGED raised
    /\ UNCHANGED <<conversation_ids, next_thread, step1, result, reply, sent, rendered>>

\* Lines 310-338: the handler decodes the answer, renders it and hands the
\* reply (reply_activity, or an error string when a step raised) to send_activity.
Respond(m, answer_json, reply_activity) ==
    IF ~answer_json.ok
    THEN /\ reply' = [reply EXCEPT ![m] = TextActivity(DecodeError)]
         /\ pc' = [pc EXCEPT ![m] = "ErrorSending"]
         /\ raised' = [raised EXCEPT ![m] = Append(@, [at |-> "decode", exc |-> "JSONDecodeError"])]
         /\ UNCHANGED rendered
    ELSE /\ rendered' = [rendered EXCEPT ![m] = @ \cup {SelectRenderer(activity[m].channel_id)}]
         /\ IF reply_activity.ok
            THEN /\ reply' = [reply EXCEPT ![m] = reply_activity.v]
                 /\ pc' = [pc EXCEPT ![m] = "Sending"]
                 /\ UNCHANGED raised
            ELSE /\ reply' = [reply EXCEPT ![m] = TextActivity(GenericError)]
                 /\ pc' = [pc EXCEPT ![m] = "ErrorSending"]
                 /\ raised' = [raised EXCEPT ![m] = Append(@, [at |-> "render", exc |-> reply_activity.exc])]

\* Lines 305-338: ask_genie returns (answer, conversation_id) having caught exc
\* ("none" when it caught nothing); the handler stores the id, then responds.
Return(m, answer, conversation_id, exc, fetched) ==
    /\ conversation_ids' = Put(conversation_ids, activity[m].from_id, conversation_id)
    /\ result' = [result EXCEPT ![m] = [returned |-> TRUE, answer |-> answer,
                                        conversation_id |-> conversation_id, exc |-> exc,
                                        fetched |-> fetched]]
    /\ locals' = [locals EXCEPT ![m] = NoLocals]
    /\ loop' = loop \ {m}
    /\ Respond(m, json_loads(json_dumps(answer)),
               ReplyActivity(activity[m].channel_id, json_loads(json_dumps(answer)).v))

\* An except branch that gives the conversation up.
NoConversationId(m) == None

\* Lines 133-137: the conversation_id the except branch returns, as the
\* try block left it.
CaughtConversationId(m) == locals[m].conversation_id

\* Lines 117-123 and 133-137: ask_genie returns the answer it built, or the
\* error answer when building it raised.
ReturnBuilt(m, built, results) ==
    Return(m, IF built.ok THEN built.v ELSE ErrorAnswer(built.exc),
           IF built.ok THEN locals[m].conversation_id ELSE CaughtConversationId(m), built.exc,
           Fetched(locals[m].message_content, TRUE, results))

\* Lines 133-137: a backend call of handler m raised; ask_genie returns the
\* error answer with conversation_id as it stands.
BackendFails(m, at) ==
    /\ pc[m] = at
    /\ at \in {"Step1", "QueryResult", "Message", "Statement"}
    /\ CanRun(m)
    /\ UNCHANGED render
    /\ Return(m, ErrorAnswer("DatabricksError"), CaughtConversationId(m), "DatabricksError",
              Fetched(NoMessage, FALSE, NoStatement))
    /\ UNCHANGED <<next_thread, activity, calls, step1, sent, done_before>>
    /\ Served(m)

\* Lines 73-94: the step-1 call returns initial_message.  A new conversation
\* gets a fresh id; the response to a follow-up carries the id it was posted to,
\* or (echo = FALSE) another one.
Step1Returns(m, echo, has_query_result) ==
    /\ pc[m] = "Step1"
    /\ CanRun(m)
    /\ UNCHANGED render
    /\ LET fresh == Thread(next_thread + 1)
           asked == locals[m].conversation_id
           im_conversation_id == IF asked # None /\ echo THEN asked ELSE fresh
       IN /\ asked = None => echo
          /\ next_thread' = IF im_conversation_id = fresh THEN next_thread + 1 ELSE next_thread
          /\ step1' = [step1 EXCEPT ![m] = im_conversation_id]
          /\ locals' = [locals EXCEPT ![m].conversation_id = NewConversationId(asked, im_conversation_id),
                                      ![m].im_conversation_id = im_conversation_id,
                                      ![m].has_query_result = has_query_result]
          /\ calls' = [calls EXCEPT ![m] = Append(@,
                          [op |-> IF has_query_result THEN "get_message_query_result"
                                  ELSE "get_message",
                           conversation_id |-> im_conversation_id])]
    /\ pc' = [pc EXCEPT ![m] = IF has_query_result THEN "QueryResult" ELSE "Message"]
    /\ loop' = RunInExecutor(m)
    /\ UNCHANGED <<conversation_ids, activity, result, reply, sent, rendered, raised, done_before>>
    /\ Served(m)

\* Lines 88-102: get_message_query_result returns query_result, with or
\* without a statement_response.
QueryResultReturns(m, statement) ==
    /\ pc[m] = "QueryResult"
    /\ CanRun(m)
    /\ UNCHANGED render
    /\ locals' = [locals EXCEPT ![m].statement = statement]
    /\ calls' = [calls EXCEPT ![m] = Append(@, [op |-> "get_message",
                                                conversation_id |-> locals[m].im_conversation_id])]
    /\ pc' = [pc EXCEPT ![m] = "Message"]
    /\ loop' = RunInExecutor(m)
    /\ UNCHANGED <<conversation_ids, next_thread, activity, step1, result, reply, sent,
                   rendered, raised, done_before>>
    /\ Served(m)

\* Lines 96-132: get_message returns message_content; with a statement the
\* handler goes on to get_statement, without one ask_genie returns the message.
MessageReturns(m, message_content) ==
    /\ pc[m] = "Message"
    /\ CanRun(m)
    /\ UNCHANGED render
    /\ IF locals[m].has_query_result /\ locals[m].statement
       THEN /\ locals' = [locals EXCEPT ![m].message_content = message_content]
            /\ calls' = [calls EXCEPT ![m] = Append(@, [op |-> "get_statement",
                                                        conversation_id |-> None])]
            /\ pc' = [pc EXCEPT ![m] = "Statement"]
            /\ loop' = RunInExecutor(m)
            /\ UNCHANGED <<conversation_ids, result, reply, rendered, raised>>
       ELSE /\ Return(m, TextAnswer(message_content), locals[m].conversation_id, "none",
                       Fetched(message_content, FALSE, NoStatement))
            /\ UNCHANGED calls
    /\ UNCHANGED <<next_thread, activity, step1, sent, done_before>>
    /\ Served(m)

\* Lines 105-123 and 133-137: get_statement returns results; ask_genie returns
\* the tabular answer, or the error answer when building it raised.
StatementReturns(m, results) ==
    /\ pc[m] = "Statement"
    /\ CanRun(m)
    /\ UNCHANGED render
    /\ ReturnBuilt(m, TabularAnswer(results, locals[m].message_content), results)
    /\ UNCHANGED <<next_thread, activity, calls, step1, sent, done_before>>
    /\ Served(m)

\* Line 329: send_activity(reply_activity) returns.
SendReturns(m) ==
    /\ pc[m] = "Sending"
    /\ CanRun(m)
    /\ UNCHANGED render
    /\ sent' = [sent EXCEPT ![m] = Append(@, reply[m])]
    /\ pc' = [pc EXCEPT ![m] = "Replied"]
    /\ loop' = loop \ {m}
    /\ UNCHANGED <<conversation_ids, next_thread, activity, locals, calls, step1, result,
                   reply, rendered, raised, done_before>>
    /\ Served(m)

\* A transport that delivers the reply and then reports a failure.
SendFailsAfterDelivery(m) ==
    /\ pc[m] = "Sending"
    /\ loop \subseteq {m}
    /\ sent' = [sent EXCEPT ![m] = Append(@, reply[m])]
    /\ raised' = [raised EXCEPT ![m] = Append(@, [at |-> "send", exc |-> "TransportError"])]
    /\ reply' = [reply EXCEPT ![m] = TextActivity(GenericError)]
    /\ pc' = [pc EXCEPT ![m] = "ErrorSending"]
    /\ loop' = loop \ {m}
    /\ UNCHANGED <<conversation_ids, next_thread, activity, locals, calls, step1, result,
                   rendered, done_before, render>>
    /\ Served(m)

\* Lines 329 and 334-338: send_activity(reply_activity) raises; the handler
\* logs it and hands the generic error string to send_activity.
SendFails(m) ==
    /\ pc[m] = "Sending"
    /\ CanRun(m)
    /\ UNCHANGED render
    /\ raised' = [raised EXCEPT ![m] = Append(@, [at |-> "send", exc |-> "TransportError"])]
    /\ reply' = [reply EXCEPT ![m] = TextActivity(GenericError)]
    /\ pc' = [pc EXCEPT ![m] = "ErrorSending"]
    /\ loop' = loop \ {m}
    /\ UNCHANGED <<conversation_ids, next_thread, activity, locals, calls, step1, result,
                   sent, rendered, done_before>>
    /\ Served(m)

\* Lines 331-333 and 336-338: the send of an error string returns.
ErrorSendReturns(m) ==
    /\ pc[m] = "ErrorSending"
    /\ CanRun(m)
    /\ UNCHANGED render
    /\ sent' = [sent EXCEPT ![m] = Append(@, reply[m])]
    /\ pc' = [pc EXCEPT ![m] = "ErrorReplied"]
    /\ loop' = loop \ {m}
    /\ UNCHANGED <<conversation_ids, next_thread, activity, locals, calls, step1, result,
                   reply, rendered, raised, done_before>>
    /\ Served(m)

\* Lines 331-333 and 336-338: the send of an error string raises inside the
\* except clause; nothing catches it and it leaves the handler.
ErrorSendFails(m) ==
    /\ pc[m] = "ErrorSending"
    /\ CanRun(m)
    /\ UNCHANGED render
    /\ raised' = [raised EXCEPT ![m] = Append(@, [at |-> "error_send", exc |-> "TransportError"])]
    /\ pc' = [pc EXCEPT ![m] = "Raised"]
    /\ loop' = loop \ {m}
    /\ UNCHANGED <<conversation_ids, next_thread, activity, locals, calls, step1, result,
                   reply, sent, rendered, done_before>>
    /\ Served(m)

(***************************************************************************)
(* on_members_added_activity, one action per stretch between two awaits.   *)
(***************************************************************************)
\* Lines 343-345: the loop goes on over members, passes those with the id of
\* the activity's recipient (the bot itself, "bot") and hands the welcome to
\* send_activity for the first other one; with no other member left the
\* handler returns.
Welcome(m, members) ==
    /\ locals' = [locals EXCEPT ![m].members = IF LStrip(members, {"bot"}) = <<>> THEN <<>>
                                               ELSE Tail(LStrip(members, {"bot"}))]
    /\ loop' = loop \ {m}
    /\ IF LStrip(members, {"bot"}) = <<>>
       THEN /\ pc' = [pc EXCEPT ![m] = "Welcomed"]
            /\ UNCHANGED reply
       ELSE /\ pc' = [pc EXCEPT ![m] = "Welcoming"]
            /\ reply' = [reply EXCEPT ![m] =
                             TextActivity(<<"W", "e", "l", "c", "o", "m", "e", " ", "t", "o", " ",
                                            "t", "h", "e", " ", "D", "a", "t", "a", "b", "r", "i",
                                            "c", "k", "s", " ", "G", "e", "n", "i", "e", " ", "B",
                                            "o", "t", "!">>)]

\* Line 345: the send of the welcome returns, and the loop goes on.
WelcomeSendReturns(m) ==
    /\ pc[m] = "Welcoming"
    /\ CanRun(m)
    /\ sent' = [sent EXCEPT ![m] = Append(@, reply[m])]
    /\ Welcome(m, locals[m].members)
    /\ UNCHANGED <<conversation_ids, next_thread, activity, calls, step1, result, rendered,
                   raised, done_before, render>>
    /\ Served(m)

\* Line 345: the send of the welcome raises; nothing catches it and it leaves
\* the handler.
WelcomeSendFails(m) ==
    /\ pc[m] = "Welcoming"
    /\ CanRun(m)
    /\ raised' = [raised EXCEPT ![m] = Append(@, [at |-> "welcome_send", exc |-> "TransportError"])]
    /\ pc' = [pc EXCEPT ![m] = "Raised"]
    /\ locals' = [locals EXCEPT ![m] = NoLocals]
    /\ loop' = loop \ {m}
    /\ UNCHANGED <<conversation_ids, next_thread, activity, calls, step1, result, reply, sent,
                   rendered, done_before, render>>
    /\ Served(m)

(***************************************************************************)
(* messages(req), one action per stretch between two awaits.  The endpoint *)
(* runs on the same event loop as the handlers.  Requests are numbered as  *)
(* they come in; their handlers start in any order.                        *)
(***************************************************************************)
\* The handlers of the bot stand still.
HandlersIdle == UNCHANGED <<conversation_ids, loop, next_thread, pc, activity, locals, calls,
                            step1, result, reply, sent, rendered, raised, done_before>>

\* Lines 352-355: the Content-Type test.  Reading a header that is not there
\* raises KeyError, outside any try.
HttpReceive(r, headers, body) ==
    /\ http[r].pc = "Idle"
    /\ \A o \in 1..(r - 1) : http[o].pc # "Idle"
    /\ loop = {}
    /\ IF "Content-Type" \notin headers.has
       THEN http' = [http EXCEPT ![r] = Finished(Request(headers, body), FALSE, "none",
                                                  Raise("KeyError"))]
       ELSE IF Contains(ApplicationJson, headers.content_type)
       THEN http' = [http EXCEPT ![r] = [Request(headers, body) EXCEPT !.pc = "ReadingBody"]]
       ELSE http' = [http EXCEPT ![r] = Finished(Request(headers, body), FALSE, "none",
                                                  Response(415))]
    /\ HandlersIdle
    /\ UNCHANGED render

\* Lines 353-361: req.json() returns or raises; the body is deserialized, which
\* may raise, both outside the try; then process_activity is called.
HttpBodyRead(r) ==
    /\ http[r].pc = "ReadingBody"
    /\ loop = {}
    /\ IF Bind(req_json(http[r].body), deserialize).ok
       THEN http' = [http EXCEPT ![r].pc = "Processing"]
       ELSE http' = [http EXCEPT ![r] = Finished(@, FALSE, "none",
                                                  Bind(req_json(http[r].body), deserialize))]
    /\ HandlersIdle
    /\ UNCHANGED render

\* Lines 361-367: process_activity comes back without on_message_activity
\* having run: the caller was rejected, or the activity was an invoke.
HttpProcessed(r, outcome) ==
    /\ http[r].pc = "Processing"
    /\ loop = {}
    /\ outcome \in ProcessOutcomes(http[r].body)
    /\ http' = [http EXCEPT ![r] = Processed(@, outcome)]
    /\ HandlersIdle
    /\ UNCHANGED render

\* Lines 361 and 299-306: process_activity runs BOT.on_turn on a message
\* activity, which is on_message_activity up to its first await, as the
\* handler of request r.
HttpTurn(r, from_id, channel_id) ==
    /\ http[r].pc = "Processing"
    /\ http[r].body = "message"
    /\ ReceiveTurn(r, from_id, channel_id)
    /\ Served(r)

\* Lines 361 and 340-345: process_activity runs BOT.on_turn on a
\* conversationUpdate activity with members added, which is
\* on_members_added_activity up to its first await, as the handler of
\* request r.
MembersAdded(r, from_id, channel_id, members_added) ==
    /\ http[r].pc = "Processing"
    /\ http[r].body = "conversationUpdate"
    /\ pc[r] = "Idle"
    /\ CanRun(r)
    /\ activity' = [activity EXCEPT ![r] = [from_id |-> from_id, channel_id |-> channel_id]]
    /\ Welcome(r, members_added)
    /\ UNCHANGED <<conversation_ids, next_thread, calls, step1, result, sent, rendered, raised,
                   done_before, render>>
    /\ Served(r)


\* Every step handler m can take once it has been received.
HandlerStep(m) ==
    \/ \E at \in Waiting : BackendFails(m, at)
    \/ \E echo, has_query_result \in BOOLEAN : Step1Returns(m, echo, has_query_result)
    \/ \E statement \in BOOLEAN : QueryResultReturns(m, statement)
    \/ \E message_content \in MessageContents : MessageReturns(m, message_content)
    \/ \E results \in StatementResults : StatementReturns(m, results)
    \/ SendReturns(m)
    \/ SendFails(m)
    \/ ErrorSendReturns(m)
    \/ ErrorSendFails(m)

Arrival(m) == \E from_id \in Users \cup {None}, channel_id \in Channels :
                  HttpTurn(m, from_id, channel_id)

\* A message activity that comes in as application/json, and its handler
\* against everything the backend and the transport may do.
Next ==
    \E m \in 1..MaxTurns :
        \/ HttpReceive(m, Headers({"Content-Type"}, ApplicationJson), "message")
        \/ HttpBodyRead(m)
        \/ Arrival(m)
        \/ HandlerStep(m)

Spec == Init /\ [][Next]_vars

\* The message and the statement result of a backend that serves one of each.
SessionContent == MessageContent(Str(<<"h", "i">>), FALSE, <<QueryAttachment(Str(<<"q">>))>>)
SessionResults == StatementResult(TRUE, Schema(<<Col(<<"n">>, "INT")>>), TRUE,
                                  Data(<<<<Str(<<"1", "2", "3", "4">>)>>>>))

\* The steps of a handler that a request runs, against a backend that serves
\* one message or fails at step 1, and a transport that may fail.
HttpTurnStep(m) ==
    \/ BackendFails(m, "Step1")
    \/ Step1Returns(m, TRUE, FALSE)
    \/ MessageReturns(m, SessionContent)
    \/ SendReturns(m)
    \/ SendFails(m)
    \/ ErrorSendReturns(m)
    \/ ErrorSendFails(m)
    \/ WelcomeSendReturns(m)
    \/ WelcomeSendFails(m)

NextHttp ==
    \/ \E r \in Reqs :
          \/ \E headers \in HeaderSets, body \in Bodies : HttpReceive(r, headers, body)
          \/ HttpBodyRead(r)
          \/ \E outcome \in ProcessOutcomes("invoke") : HttpProcessed(r, outcome)
          \/ \E from_id \in {"U1", None} : HttpTurn(r, from_id, "msteams")
          \/ \E members_added \in {<<"bot">>, <<"U1">>, <<"bot", "U1", "bot", "U2">>} :
                 MembersAdded(r, "U1", "msteams", members_added)
    \/ \E m \in Msgs : HttpTurnStep(m)

SpecHttp == Init /\ [][NextHttp]_vars

(***************************************************************************)
(* The sessions: more messages, of users with a from_property, against a   *)
(* backend that serves one message and one statement result and may fail   *)
(* at every call, and a transport that delivers.                           *)
(***************************************************************************)
SessionArrival(m) == \E from_id \in Users : HttpTurn(m, from_id, "msteams")

SessionStep(m) ==
    \/ \E at \in Waiting : BackendFails(m, at)
    \/ \E echo, has_query_result \in BOOLEAN : Step1Returns(m, echo, has_query_result)
    \/ \E statement \in BOOLEAN : QueryResultReturns(m, statement)
    \/ MessageReturns(m, SessionContent)
    \/ StatementReturns(m, SessionResults)
    \/ SendReturns(m)

NextSessions ==
    \E m \in Msgs :
        \/ HttpReceive(m, Headers({"Content-Type"}, ApplicationJson), "message")
        \/ HttpBodyRead(m)
        \/ SessionArrival(m)
        \/ SessionStep(m)

SpecSessions == Init /\ [][NextSessions]_vars

(***************************************************************************)
(* The renderers on their own, over decoded payloads of every shape.       *)
(***************************************************************************)
\* Two header widths around the one at which a table without rows is exactly
\* max_chars long (header line and separator line, each with its newline).
LongNames == { Repeat("x", max_chars \div 2 - 1), Repeat("x", max_chars \div 2) }

ColumnLists ==
    { <<>>,
      <<Col(<<"n">>, "BIGINT")>>,
      <<Col(<<"a", "m", "t">>, "DOUBLE"), Col(<<"s">>, "STRING")>>,
      <<[has |-> {"type_name"}, name |-> <<>>, type_name |-> "INT"]>>,
      <<[has |-> {"name"}, name |-> <<"n">>, type_name |-> ""]>> }
    \cup { <<Col(name, "INT")>> : name \in LongNames }

\* None, an integer text, a text with a fraction, a text float() rounds at the
\* hundredths and int() rejects, its whitespace aside, and a text that is no
\* number.
Cells == { Null, Str(<<"1", "2", "3", "4", "5", "6", "7">>),
           Str(<<"1", "2", "3", "4", "5", "6", "7", ".", "5">>),
           Str(<<" ", "2", ".", "6", "7", "5">>), Str(<<"a", "b">>) }

\* Rows as wide as the schema, one cell wider, and one cell narrower.
RowsFor(cols) ==
    { <<>> } \cup { [i \in 1..Len(cols) |-> c] : c \in Cells }
    \cup { [i \in 1..(Len(cols) + 1) |-> Str(<<"7">>)] }
    \cup (IF Len(cols) = 2 THEN { <<Null, Str(<<"a", "b">>)>>, <<Str(<<"0", ".", "5">>)>>,
                                  <<Str(<<"-", "0">>), IntV(12)>> }
          ELSE {})

RECURSIVE SeqsUpTo(_, _)
SeqsUpTo(S, n) == IF n = 0 THEN { <<>> }
                  ELSE SeqsUpTo(S, n - 1)
                       \cup { Append(q, x) : q \in { t \in SeqsUpTo(S, n - 1) : Len(t) = n - 1 },
                                             x \in S }

Tables ==
    UNION { { [columns |-> Schema(cols), data |-> Data(rows)] : rows \in SeqsUpTo(RowsFor(cols), MaxRows) }
            : cols \in ColumnLists }
    \cup { [columns |-> c, data |-> d] :
             c \in { NotADict, EmptyDict, Schema(<<Col(<<"n">>, "BIGINT")>>) },
             d \in { NotADictData, NoRows } }

Descriptions == { Null, Str(<<>>), Str(<<"T", "o", "p">>) }

Payloads ==
    { AnswerJson({"columns", "data", "query_description"}, qd, t.columns, t.data, Null, Null) :
        qd \in Descriptions, t \in Tables }
    \cup { AnswerJson({"columns", "data"}, Null, t.columns, t.data, Null, Null) : t \in Tables }
    \cup { AnswerJson({"columns"}, Null, Schema(<<Col(<<"n">>, "BIGINT")>>), NotADictData, Null, Null),
           MessageAnswer(Str(<<"h", "i">>)), MessageAnswer(Null), MessageAnswer(Str(<<>>)),
           ErrorAnswer("none"),
           AnswerJson({}, Null, NotADict, NotADictData, Null, Null),
           AnswerJson({"query_description"}, Str(<<"T", "o", "p">>), NotADict, NotADictData,
                      Null, Null) }

\* table_str as process_for_slack holds it before truncating, for a payload
\* that reaches line 238; NotRun for the others.
TableStrOf(answer_json) ==
    IF /\ "columns" \in answer_json.has /\ "data" \in answer_json.has
       /\ answer_json.columns.isdict /\ "columns" \in answer_json.columns.has
       /\ answer_json.data.isdict /\ "data_array" \in answer_json.data.has
    THEN SlackTable(answer_json.columns, answer_json.data)
    ELSE NotRun

InitRender ==
    /\ render \in { RenderOf(payload) : payload \in Payloads }
    /\ conversation_ids = [has |-> {}, val |-> [u \in Users |-> None]]
    /\ loop = {}
    /\ next_thread = 0
    /\ pc = [m \in Msgs |-> "Idle"]
    /\ activity = [m \in Msgs |-> [from_id |-> None, channel_id |-> "none"]]
    /\ locals = [m \in Msgs |-> NoLocals]
    /\ calls = [m \in Msgs |-> <<>>]
    /\ step1 = [m \in Msgs |-> None]
    /\ result = [m \in Msgs |-> NoResult]
    /\ reply = [m \in Msgs |-> NoActivity]
    /\ sent = [m \in Msgs |-> <<>>]
    /\ rendered = [m \in Msgs |-> {}]
    /\ raised = [m \in Msgs |-> <<>>]
    /\ done_before = [m \in Msgs |-> {}]
    /\ http = [m \in Msgs |-> NoRequest]

\* process_query_results(answer_json) is called.
RenderPlain ==
    /\ render.plain = NotRun
    /\ render' = [render EXCEPT !.plain = process_query_results(render.payload)]
    /\ HandlersIdle
    /\ UNCHANGED http

\* process_for_slack(answer_json) is called.
RenderBlocks ==
    /\ render.blocks = NotRun
    /\ render' = [render EXCEPT !.blocks = process_for_slack(render.payload),
                                !.table = TableStrOf(render.payload)]
    /\ HandlersIdle
    /\ UNCHANGED http

NextRender == RenderPlain \/ RenderBlocks

SpecRender == InitRender /\ [][NextRender]_vars

(***************************************************************************)
(* Properties of the sessions (checked under SpecSessions).                *)
(***************************************************************************)
Received(m) == pc[m] # "Idle"
User(m) == activity[m].from_id
Slot(u) == Get(conversation_ids, u)
SameUser(a, b) == Received(a) /\ Received(b) /\ User(a) = User(b) /\ User(a) # None
\* The step-1 call of a handler that has issued it.
FirstCall(m) == calls[m][1]
Started(m) == calls[m] # <<>> /\ FirstCall(m).op = "start_conversation_and_wait"
Posted(m) == calls[m] # <<>> /\ FirstCall(m).op = "create_message_and_wait"
\* The messages of user u are handled one after another: of any two, the
\* handler of one had ended when the handler of the other started.
OneAfterAnother(u) ==
    \A a, b \in Msgs : (a # b /\ SameUser(a, b) /\ User(a) = u)
                        => (a \in done_before[b] \/ b \in done_before[a])
\* b is the next message of a's user handled after a.
NextOf(a, b) ==
    /\ a # b /\ SameUser(a, b) /\ a \in done_before[b]
    /\ ~\E c \in Msgs : SameUser(a, c) /\ a \in done_before[c] /\ c \in done_before[b]
\* The error answer, written out.
ErrorPayload ==
    [has |-> {"error"}, query_description |-> Null, columns |-> NotADict,
     data |-> NotADictData, message |-> Null, error |-> Str(GenericError)]
\* Handler m's call of ask_genie returns in this step.
ReturnsNow(m) == ~result[m].returned /\ result'[m].returned

\* C1: session continuity.  When the messages of a user are handled one after
\* another, message 1 found no thread and its start-conversation call returned
\* T1, then the user's next message issues create_message_and_wait on T1 and
\* no start-conversation call.
C1_SessionContinuity ==
    \A a, b \in Msgs :
        (/\ NextOf(a, b) /\ OneAfterAnother(User(a))
         /\ Started(a) /\ step1[a] # None)
        => /\ FirstCall(b) = [op |-> "create_message_and_wait", conversation_id |-> step1[a]]
           /\ \A i \in 1..Len(calls[b]) : calls[b][i].op # "start_conversation_and_wait"

\* C1 witness: a second message of the same user, received after the first
\* replied, has posted on the thread the first one started.
C1_Witness ==
    \E a, b \in Msgs :
        /\ NextOf(a, b) /\ OneAfterAnother(User(a)) /\ Started(a) /\ step1[a] # None
        /\ pc[a] = "Replied" /\ Posted(b) /\ FirstCall(b).conversation_id = step1[a]

\* C2: failure resilience.  Whenever step 1 (start-conversation or
\* post-message) has returned a thread id and a later backend call of the turn
\* fails, ask_genie returns the id of the step-1 response with the error
\* payload and the handler stores that id for the user before it replies.
\* Violated: on a follow-up, lines 77-84 leave conversation_id as passed in,
\* so the id of a response that carries another thread is neither returned
\* nor stored.
C2_FailureResilience ==
    [][\A m \in Msgs :
          (ReturnsNow(m) /\ step1[m] # None /\ result'[m].exc # "none")
          => /\ result'[m].answer = ErrorPayload
             /\ result'[m].conversation_id = step1[m]
             /\ Get(conversation_ids', User(m)) = step1[m]
             /\ sent'[m] = <<>>]_vars

\* C3: whenever step 1 succeeds, on a new conversation and on a follow-up
\* alike, the id returned to the handler (and then stored) is the id carried
\* by the step-1 response.  Violated: a follow-up answered with another id
\* than the one passed in returns the one passed in (lines 77-84, 123-137).
C3_ReturnedThread ==
    \A m \in Msgs :
        (result[m].returned /\ step1[m] # None) => result[m].conversation_id = step1[m]

\* C5: the session slot is not serialized.  A handler whose user's slot no
\* longer holds what the handler looked up (another handler of the user has
\* stored in between) still overwrites the slot with its own, older id.
C5_LastWriterWins ==
    [][\A m \in Msgs :
          (ReturnsNow(m) /\ Slot(User(m)) # FirstCall(m).conversation_id)
          => Get(conversation_ids', User(m)) = result'[m].conversation_id]_vars

\* C5 witness: two handlers of one user both found no thread and both started
\* a conversation; both have stored, and the slot holds the id obtained first,
\* the other id is lost.
C5_Witness ==
    \E a, b \in Msgs :
        /\ a # b /\ SameUser(a, b) /\ Started(a) /\ Started(b)
        /\ result[a].returned /\ result[b].returned
        /\ step1[a] = Thread(1) /\ step1[b] = Thread(2)
        /\ result[a].conversation_id = Thread(1) /\ result[b].conversation_id = Thread(2)
        /\ Slot(User(a)) = Thread(1)

\* C6: no cross-request blocking.  Whatever calls of other handlers are
\* pending, the next message request can be accepted, a request that has
\* come in can have its body read and its handler started, for every user,
\* and every handler in flight can take its next step.
C6_NoCrossBlocking ==
    \A m \in Msgs :
        /\ (http[m].pc = "Idle" /\ \A o \in 1..(m - 1) : http[o].pc # "Idle")
           => ENABLED HttpReceive(m, Headers({"Content-Type"}, ApplicationJson), "message")
        /\ http[m].pc = "ReadingBody" => ENABLED HttpBodyRead(m)
        /\ http[m].pc = "Processing" => \A u \in Users : ENABLED HttpTurn(m, u, "msteams")
        /\ pc[m] \in Waiting => ENABLED SessionStep(m)

\* C6 witness: a message of another user arrived while a handler waited for
\* its step-1 call, and has been replied to while that call is still pending.
C6_Witness ==
    \E a, b \in Msgs :
        /\ a < b /\ Received(b) /\ User(a) # User(b)
        /\ pc[a] = "Step1" /\ pc[b] = "Replied"

(***************************************************************************)
(* Properties of one handler (checked under Spec).                         *)
(***************************************************************************)
Last(q) == q[Len(q)]
FixedStrings == { TextActivity(GenericError), TextActivity(DecodeError) }
InAskGenie == {"Step1", "QueryResult", "Message", "Statement"}

\* C4: an exception raised at any point of on_message_activity ends with one
\* of the two fixed strings sent, and no exception leaves the handler.
\* Violated: lines 300-302 stand before the try of line 304, and the sends of
\* the except clauses (lines 331, 336) are not guarded.
C4_ErrorReplied ==
    \A m \in Msgs :
        /\ pc[m] # "Raised"
        /\ (raised[m] # <<>> /\ pc[m] \in Ended)
           => \E i \in 1..Len(sent[m]) : sent[m][i] \in FixedStrings

\* C9: ask_genie never raises and never leaks.  A handler that has left its
\* backend calls behind holds a return value of ask_genie, and whatever failed
\* (a backend call, or reading the responses) the answer is the error payload
\* with the one generic string.
C9_GenericError ==
    \A m \in Msgs :
        /\ (Received(m) /\ User(m) # None /\ pc[m] \notin InAskGenie) => result[m].returned
        /\ (result[m].returned /\ result[m].exc # "none") => result[m].answer = ErrorPayload
        /\ (result[m].returned /\ result[m].exc = "none") => "error" \notin result[m].answer.has

\* C9 witness: reading the statement result failed (no manifest) and ask_genie
\* returned the error payload.
C9_Witness ==
    \E m \in Msgs :
        /\ result[m].returned /\ result[m].exc = "AttributeError"
        /\ result[m].answer = ErrorPayload /\ result[m].conversation_id # None

\* C10: renderer selection.  Every handler that got an answer ran exactly one
\* renderer: process_for_slack when the channel id is "slack", and
\* process_query_results for every other channel id; the reply it hands to
\* send_activity, and the reply delivered, is that renderer's output.
C10_RendererByChannel ==
    \A m \in Msgs :
        result[m].returned =>
          /\ rendered[m] = { IF activity[m].channel_id = "slack" THEN "process_for_slack"
                             ELSE "process_query_results" }
          /\ pc[m] \in {"Sending", "Replied"} =>
               reply[m] = IF activity[m].channel_id = "slack"
                          THEN BlocksActivity(process_for_slack(result[m].answer).v)
                          ELSE TextActivity(process_query_results(result[m].answer).v)
          /\ pc[m] = "Replied" => sent[m] = <<reply[m]>>

\* C10 witness: a tabular answer on channel "slack" was delivered as blocks.
C10_Witness ==
    \E m \in Msgs :
        /\ pc[m] = "Replied" /\ activity[m].channel_id = "slack"
        /\ "columns" \in result[m].answer.has
        /\ Len(sent[m]) = 1 /\ sent[m][1].kind = "blocks" /\ Len(sent[m][1].attachments) >= 2

(***************************************************************************)
(* Properties of the renderers (checked under SpecRender).                 *)
(***************************************************************************)
\* C7: both renderers are total: whatever the payload, neither raises.
C7_RenderersTotal ==
    /\ render.plain.exc \in {"none", "not run"}
    /\ render.blocks.exc \in {"none", "not run"}

\* C8: truncation.  The table text emitted between the code fences is the
\* first max_chars characters of table_str followed by "..." when table_str is
\* longer than max_chars, and table_str itself otherwise; the block text stays
\* within Slack's limit.
C8_Truncation ==
    (render.blocks # NotRun /\ render.table.ok) =>
        /\ render.blocks.ok
        /\ LET text == Last(render.blocks.v).text.s
               emitted == SubSeq(text, 4, Len(text) - 3)
           IN /\ SubSeq(text, 1, 3) = CodeFence
              /\ SubSeq(text, Len(text) - 2, Len(text)) = CodeFence
              /\ Len(render.table.v) > max_chars
                 => emitted = SubSeq(render.table.v, 1, max_chars) \o <<".", ".", ".">>
              /\ Len(render.table.v) <= max_chars => emitted = render.table.v
              /\ Len(text) <= SlackTextLimit

\* C8 witness: a table longer than max_chars has been rendered.
C8_Witness ==
    /\ render.blocks # NotRun /\ render.blocks.ok /\ render.table.ok
    /\ Len(render.table.v) > max_chars
    /\ Len(Last(render.blocks.v).text.s) = max_chars + 9

\* The table of the payload under render, read off the payload itself.
C11_Cols == render.payload.columns.columns
C11_Rows == render.payload.data.data_array
C11_Cell(r, i) == FormatValue(C11_Rows[r][i], C11_Cols[i]).v
\* max(header width, widest formatted cell of column i), for the formatted
\* cells of all rows
C11_Width(cells, i) ==
    LET lens == {Len(C11_Cols[i].name)}
                \cup { Len(cells[r][i]) : r \in { k \in 1..Len(cells) : i <= Len(cells[k]) } }
    IN CHOOSE w \in lens : \A x \in lens : x <= w
C11_Line(line, widths) ==
    Join([i \in 1..Len(line) |-> Ljust(line[i], widths[i])], <<" ", "|", " ">>)
C11_Table ==
    With(<<>> \o [r \in 1..Len(C11_Rows) |->
                    <<>> \o [i \in 1..Len(C11_Rows[r]) |-> C11_Cell(r, i)]], LAMBDA cells :
    With(<<>> \o [i \in 1..Len(C11_Cols) |-> C11_Width(cells, i)], LAMBDA widths :
        C11_Line([i \in 1..Len(C11_Cols) |-> C11_Cols[i].name], widths) \o <<"\n">>
        \o Join([i \in 1..Len(C11_Cols) |-> Repeat("-", widths[i])], <<"-", "+", "-">>) \o <<"\n">>
        \o Join([r \in 1..Len(cells) |-> C11_Line(cells[r], widths) \o <<"\n">>], <<>>)))
C11_HasDescription ==
    /\ "query_description" \in render.payload.has
    /\ render.payload.query_description.t = "str"
    /\ render.payload.query_description.s # <<>>

\* C11: block sequence of a tabular answer.  With a query description the
\* blocks begin with the description section and a divider, without one both
\* are absent; then come the "Query Results" title section and the table
\* section, whose text is the code-fenced table in which every column is
\* padded to max(header width, widest formatted cell of the column), cut at
\* max_chars.
C11_BlockSequence ==
    (render.blocks # NotRun /\ render.table.ok) =>
        /\ render.blocks.ok
        /\ LET blocks == render.blocks.v
               n == Len(blocks)
           IN /\ IF C11_HasDescription
                 THEN /\ n = 4
                      /\ blocks[1].type = "section"
                      /\ blocks[1].text.s = <<"*", "Q", "u", "e", "r", "y", " ", "D", "e", "s", "c",
                                              "r", "i", "p", "t", "i", "o", "n", ":", "*", "\n">>
                                            \o render.payload.query_description.s
                      /\ blocks[2].type = "divider"
                 ELSE n = 2
              /\ \A k \in 1..n : (k # 2 \/ ~C11_HasDescription) => blocks[k].type = "section"
              /\ blocks[n - 1].text.s = QueryResultsTitle
              /\ With(C11_Table, LAMBDA table :
                      blocks[n].text.s
                      = CodeFence
                        \o SubSeq(table, 1, IF Len(table) > max_chars THEN max_chars
                                            ELSE Len(table))
                        \o (IF Len(table) > max_chars THEN <<".", ".", ".">> ELSE <<>>)
                        \o CodeFence)

\* C11 witness: a table with a description, two columns and a cell wider than
\* its header has been rendered into four blocks.
C11_Witness ==
    /\ render.blocks # NotRun /\ render.blocks.ok /\ render.table.ok
    /\ C11_HasDescription /\ Len(render.blocks.v) = 4
    /\ Len(C11_Cols) = 2 /\ Len(C11_Rows) >= 1
    /\ \E r \in 1..Len(C11_Rows) : Len(C11_Rows[r]) = 2 /\ Len(C11_Cell(r, 1)) > Len(C11_Cols[1].name)

(***************************************************************************)
(* Properties of the HTTP endpoint (checked under SpecHttp).               *)
(***************************************************************************)
\* The Content-Type values that name JSON (media types compare without case).
C12_JsonTypes ==
    {ApplicationJson,
     ApplicationJson \o <<";", " ", "c", "h", "a", "r", "s", "e", "t", "=", "u", "t", "f", "-", "8">>,
     <<"A", "p", "p", "l", "i", "c", "a", "t", "i", "o", "n", "/", "J", "S", "O", "N">>}
C12_NonJsonType(r) ==
    "Content-Type" \in http[r].headers.has /\ http[r].headers.content_type \notin C12_JsonTypes
C12_Malformed(r) ==
    \/ "Content-Type" \notin http[r].headers.has
    \/ C12_NonJsonType(r)
    \/ http[r].body \in {"not_json", "not_envelope"}

\* C12: boundary rejection.  Every malformed request (a non-JSON Content-Type,
\* no Content-Type, a body that is not JSON, an envelope that does not
\* deserialize) ends with an HTTP error status, 415 for a non-JSON content
\* type, without the bot being invoked; a failure while an accepted request
\* is processed (the caller is rejected, an exception leaves the handler)
\* ends with 500.
C12_BoundaryRejection ==
    \A r \in Reqs :
        http[r].pc = "Done" =>
            /\ C12_Malformed(r) => (http[r].status >= 400 /\ ~http[r].invoked /\ pc[r] = "Idle")
            /\ C12_NonJsonType(r) => http[r].status = 415
            /\ http[r].caught # "none" => http[r].status = 500
            /\ pc[r] = "Raised" => http[r].status = 500

(***************************************************************************)
(* More properties of the sessions (checked under SpecSessions).           *)
(***************************************************************************)
\* Handler m's step-1 call failed: ask_genie returned without a step-1 response.
C13_Step1Failed(m) == result[m].returned /\ step1[m] = None

\* C13: a failure before any thread id was obtained.  When the step-1 call
\* fails, ask_genie returns the error payload with the thread id it was given
\* (None on a first contact, the id passed in on a follow-up) and the handler
\* stores exactly that under the user; after a failed first contact the
\* user's next message, handled after it, starts a new conversation.
C13_FailedBeforeThread ==
    /\ [][\A m \in Msgs :
             (ReturnsNow(m) /\ step1[m] = None)
             => /\ result'[m].answer = ErrorPayload
                /\ Len(calls[m]) = 1
                /\ result'[m].conversation_id = FirstCall(m).conversation_id
                /\ Started(m) => result'[m].conversation_id = None
                /\ User(m) \in conversation_ids'.has
                /\ conversation_ids'.val[User(m)] = FirstCall(m).conversation_id]_vars
    /\ [](\A a, b \in Msgs :
             (/\ NextOf(a, b) /\ OneAfterAnother(User(a))
              /\ Started(a) /\ C13_Step1Failed(a))
             => Started(b))

\* C13 witness: a first contact failed at its start-conversation call, the
\* registry holds None under the user, and the user's next message has
\* started a new conversation.
C13_Witness ==
    \E a, b \in Msgs :
        /\ NextOf(a, b) /\ a \in done_before[b]
        /\ Started(a) /\ C13_Step1Failed(a) /\ result[a].conversation_id = None
        /\ Started(b) /\ pc[b] = "Step1"
        /\ User(a) \in conversation_ids.has /\ Slot(User(a)) = None

Step1Ops == {"start_conversation_and_wait", "create_message_and_wait"}
\* The step-1 calls handler m has issued.
C14_Step1Calls(m) == { i \in 1..Len(calls[m]) : calls[m][i].op \in Step1Ops }

\* C14: one conversation turn per message.  A handler that calls ask_genie
\* issues its step-1 call at once: start_conversation_and_wait when the
\* registry holds no thread for the user, create_message_and_wait on the
\* thread it holds otherwise; and whatever happens afterwards, a failure of
\* that call included, it never issues a second step-1 call.
C14_OneTurnPerMessage ==
    /\ [][\A m \in Msgs :
             (pc[m] = "Idle" /\ pc'[m] = "Step1")
             => calls'[m] = << IF Get(conversation_ids, activity'[m].from_id) = None
                               THEN [op |-> "start_conversation_and_wait", conversation_id |-> None]
                               ELSE [op |-> "create_message_and_wait",
                                     conversation_id |-> Get(conversation_ids, activity'[m].from_id)] >>]_vars
    /\ [](\A m \in Msgs :
             /\ (Received(m) /\ User(m) # None) => C14_Step1Calls(m) = {1}
             /\ ~Received(m) => calls[m] = <<>>)

\* C14 witness: a follow-up whose post-message call failed has returned,
\* having issued that one call and no other.
C14_Witness ==
    \E m \in Msgs :
        /\ Posted(m) /\ result[m].returned /\ result[m].exc # "none" /\ step1[m] = None
        /\ Len(calls[m]) = 1 /\ pc[m] = "Replied"

(***************************************************************************)
(* More properties of one handler (checked under Spec).                    *)
(***************************************************************************)
\* The attachments of a message, none at all counting as an empty list.
C15_Attachments(mc) == IF mc.attachments_none THEN <<>> ELSE mc.attachments
C15_Filled(v) == v.t = "str" /\ v.s # <<>>
C15_Described(mc) ==
    { i \in 1..Len(C15_Attachments(mc)) :
        C15_Attachments(mc)[i].has_query /\ C15_Filled(C15_Attachments(mc)[i].description) }
C15_Texts(mc) ==
    { i \in 1..Len(C15_Attachments(mc)) :
        C15_Attachments(mc)[i].has_text /\ C15_Filled(C15_Attachments(mc)[i].content) }
C15_First(S) == CHOOSE i \in S : \A j \in S : i <= j
\* The payload the selection order gives for what was fetched.
C15_Expected(f) ==
    IF f.got_results
    THEN [has |-> {"columns", "data", "query_description"},
          query_description |->
              IF C15_Described(f.message_content) = {} THEN Str(<<>>)
              ELSE C15_Attachments(f.message_content)[C15_First(C15_Described(f.message_content))].description,
          columns |-> f.results.columns, data |-> f.results.data,
          message |-> Null, error |-> Null]
    ELSE [has |-> {"message"}, query_description |-> Null, columns |-> NotADict,
          data |-> NotADictData,
          message |->
              IF C15_Texts(f.message_content) = {} THEN f.message_content.content
              ELSE C15_Attachments(f.message_content)[C15_First(C15_Texts(f.message_content))].content,
          error |-> Null]
\* Every backend call of the turn returned, and a statement result that was
\* fetched carries its manifest and its rows.
C15_NoCallFailed(m) ==
    /\ result[m].returned /\ result[m].exc # "DatabricksError"
    /\ result[m].fetched.got_results
       => (result[m].fetched.results.has_manifest /\ result[m].fetched.results.has_result)
C15_Issued(m, op) == \E i \in 1..Len(calls[m]) : calls[m][i].op = op

\* C15: payload selection order.  When no backend call fails: with a
\* statement result the payload is tabular, with the description of the first
\* attachment that has one and "" when none has (a message without any
\* attachments included); else the text of the first attachment with free
\* text; else the raw message content.  get_statement is issued only after
\* the step-1 response indicated a query result.
C15_PayloadSelection ==
    \A m \in Msgs :
        /\ C15_NoCallFailed(m) => result[m].answer = C15_Expected(result[m].fetched)
        /\ C15_Issued(m, "get_statement") => C15_Issued(m, "get_message_query_result")

\* The texts a reply shows: its text, or the texts of its blocks.
C16_Texts(a) ==
    IF a.kind = "blocks" THEN { a.attachments[i].text.s : i \in 1..Len(a.attachments) }
    ELSE { a.text }
C16_Placeholder(channel_id) ==
    IF channel_id = "slack"
    THEN [kind |-> "blocks", text |-> <<>>,
          attachments |-> <<[type |-> "section", text |-> Str(NoDataAvailable)]>>]
    ELSE [kind |-> "text", text |-> NoDataAvailable \o <<"\n", "\n">>, attachments |-> <<>>]

\* C16: what the user sees on a backend failure.  When ask_genie returned the
\* error payload, the handler renders it without raising and hands the
\* renderer's placeholder "No data available." to the transport (as text, or
\* as one section block on channel "slack"); once the transport has delivered
\* it the handler is in Replied with that one reply sent, and the error
\* payload's detail is not in it.
C16_BackendFailureReply ==
    \A m \in Msgs :
        (result[m].returned /\ result[m].exc # "none") =>
            /\ result[m].answer = ErrorPayload
            /\ \A i \in 1..Len(raised[m]) : raised[m][i].at \in {"send", "error_send"}
            /\ raised[m] = <<>> => pc[m] \in {"Sending", "Replied"}
            /\ pc[m] \in {"Sending", "Replied"} =>
                 /\ reply[m] = C16_Placeholder(activity[m].channel_id)
                 /\ \A t \in C16_Texts(reply[m]) : ~Contains(GenericError, t)
            /\ pc[m] = "Replied" => sent[m] = <<C16_Placeholder(activity[m].channel_id)>>

\* C16 witness: a backend call failed and the user on channel "slack" got the
\* one placeholder block.
C16_Witness ==
    \E m \in Msgs :
        /\ result[m].returned /\ result[m].exc = "DatabricksError"
        /\ activity[m].channel_id = "slack" /\ pc[m] = "Replied"
        /\ sent[m] = <<C16_Placeholder("slack")>>

(***************************************************************************)
(* More properties of the renderers (checked under SpecRender).            *)
(***************************************************************************)
\* The payload under render has a schema and rows, and both renderers ran.
C17_BothRanOnTable ==
    /\ render.plain # NotRun /\ render.blocks # NotRun
    /\ "columns" \in render.payload.has /\ "data" \in render.payload.has
    /\ render.payload.columns.isdict /\ "columns" \in render.payload.columns.has
    /\ render.payload.data.isdict /\ "data_array" \in render.payload.data.has

\* C17: the two renderers format cells alike.  For every row of the payload
\* the plain rendering (zip over the row and the columns) and the block
\* rendering (enumerate over the row) come to the same formatted cells: the
\* same strings, and the same number of them.
C17_SameCells ==
    C17_BothRanOnTable =>
        \A r \in 1..Len(render.payload.data.data_array) :
            FormatZip(render.payload.data.data_array[r], render.payload.columns.columns)
            = FormatEnum(render.payload.data.data_array[r], render.payload.columns.columns, 1)

(***************************************************************************)
(* Isolation and persistence of the sessions (checked under SpecSessions). *)
(***************************************************************************)
\* The thread ids the backend handed to handlers of other users than u.
C18_ThreadsOfOthers(u) ==
    { step1[m] : m \in { k \in Msgs : Received(k) /\ User(k) # u /\ step1[k] # None } }
C18_Entry(d, u) == [has |-> u \in d.has, val |-> d.val[u]]

\* C18: cross-user isolation.  Under every interleaving, a step changes the
\* registry entry of a user only when a handler of that user's own message
\* stores its result; a handler looks up the entry of its own user; and no
\* backend call of a handler carries a thread id the backend handed out for
\* another user.
C18_CrossUserIsolation ==
    /\ [][\A u \in Users :
             /\ C18_Entry(conversation_ids', u) # C18_Entry(conversation_ids, u)
                => \E m \in Msgs : ReturnsNow(m) /\ User(m) = u
             /\ \A m \in Msgs :
                  (pc[m] = "Idle" /\ pc'[m] = "Step1" /\ activity'[m].from_id = u)
                  => calls'[m][1].conversation_id = Get(conversation_ids, u)]_vars
    /\ [](\A m \in Msgs : \A i \in 1..Len(calls[m]) :
             calls[m][i].conversation_id \notin C18_ThreadsOfOthers(User(m)))

\* C18 witness: two users' messages were handled at the same time, each
\* started a conversation, and each user's entry holds that user's thread.
C18_Witness ==
    \E a, b \in Msgs :
        /\ a < b /\ Received(b) /\ User(a) # User(b) /\ a \notin done_before[b]
        /\ pc[a] = "Replied" /\ pc[b] = "Replied"
        /\ step1[a] # None /\ step1[b] # None
        /\ Slot(User(a)) = step1[a] /\ Slot(User(b)) = step1[b]

\* C19 as stated: once the registry holds a thread id for a user, it holds
\* one in every later state, under every interleaving and failure pattern.
C19_Original ==
    [][\A u \in Users : Slot(u) # None => Get(conversation_ids', u) # None]_vars

\* C19, amended: an established thread id is replaced by None in one case
\* only: a handler of the same user that was running at the same time as
\* another, had looked up None before the thread was stored, and whose
\* start-conversation call failed, stores the None it kept.  When the user's
\* messages are handled one after another, the thread is never lost.
C19_SessionKept ==
    [][\A u \in Users :
          (Slot(u) # None /\ Get(conversation_ids', u) = None)
          => /\ ~OneAfterAnother(u)
             /\ \E m \in Msgs :
                  /\ ReturnsNow(m) /\ User(m) = u
                  /\ Started(m) /\ step1[m] = None
                  /\ result'[m].exc # "none"]_vars

\* C19 witness: two handlers of one user ran at the same time; one started a
\* conversation and stored its thread, the other's start call failed, and the
\* registry ends with None for the user.
C19_Witness ==
    \E a, b \in Msgs :
        /\ a # b /\ SameUser(a, b)
        /\ result[a].returned /\ result[a].conversation_id # None
        /\ result[b].returned /\ result[b].conversation_id = None /\ result[b].exc # "none"
        /\ User(a) \in conversation_ids.has /\ Slot(User(a)) = None

(***************************************************************************)
(* The replies of one handler (checked under Spec).                        *)
(***************************************************************************)
\* The reply the renderer of the handler's channel makes of its answer.
C20_Rendered(m) ==
    IF activity[m].channel_id = "slack"
    THEN [kind |-> "blocks", text |-> <<>>,
          attachments |-> process_for_slack(result[m].answer).v]
    ELSE [kind |-> "text", text |-> process_query_results(result[m].answer).v,
          attachments |-> <<>>]
C20_ErrorStrings ==
    { [kind |-> "text", text |-> GenericError, attachments |-> <<>>],
      [kind |-> "text", text |-> DecodeError, attachments |-> <<>>] }

\* C20: one reply per message.  A handler that has finished without an
\* exception leaving it has had exactly one send delivered: the rendered
\* answer when nothing was raised, one of the two fixed error strings
\* otherwise; and no handler ever has more than one send delivered.
C20_OneReply ==
    \A m \in Msgs :
        /\ Len(sent[m]) <= 1
        /\ pc[m] = "Replied" => (raised[m] = <<>> /\ sent[m] = <<C20_Rendered(m)>>)
        /\ pc[m] = "ErrorReplied" =>
             /\ raised[m] # <<>> /\ Len(sent[m]) = 1
             /\ sent[m][1] \in C20_ErrorStrings
        /\ pc[m] \notin {"Replied", "ErrorReplied"} => sent[m] = <<>>

\* C20 witness: rendering the answer raised, and the handler finished with
\* the generic error string as its one delivered reply.
C20_Witness ==
    \E m \in Msgs :
        /\ pc[m] = "ErrorReplied" /\ raised[m] # <<>> /\ raised[m][1].at = "render"
        /\ sent[m] = <<[kind |-> "text", text |-> GenericError, attachments |-> <<>>]>>

====
